---- MODULE Spec2Model ----
(***************************************************************************)
(* AgentVerse: the dietary/allergen safety filter and the match scoring    *)
(* of generateRestaurantData (services/openaiService.ts), and the "Perfect *)
(* Matches" list of RestaurantDetail (components/RestaurantDetail.tsx).    *)
(*                                                                         *)
(* JavaScript strings are modelled as sequences of one-character strings,  *)
(* so that toLowerCase and String.prototype.includes are computed, not     *)
(* assumed.                                                                *)
(***************************************************************************)
EXTENDS Integers, Sequences, FiniteSets, TLC

(* ------------------------------ bounds --------------------------------- *)
\* longest dietaryPreferences list handed to a search
MaxPrefs == 2
\* longest allergens list handed to a search
MaxAllergens == 2
\* longest tasteProfile list handed to a search
MaxTaste == 2

(* --------------------------- JavaScript values -------------------------- *)
\* null, as the value of a state cell that otherwise holds an object
null == [isNull |-> TRUE]

Range(s) == {s[i] : i \in 1..Len(s)}

UpperToLower ==
  [c \in {"A","B","C","D","E","F","G","H","I","J","K","L","M","N","O","P","Q",
          "R","S","T","U","V","W","X","Y","Z"} |->
     CASE c = "A" -> "a" [] c = "B" -> "b" [] c = "C" -> "c" [] c = "D" -> "d"
       [] c = "E" -> "e" [] c = "F" -> "f" [] c = "G" -> "g" [] c = "H" -> "h"
       [] c = "I" -> "i" [] c = "J" -> "j" [] c = "K" -> "k" [] c = "L" -> "l"
       [] c = "M" -> "m" [] c = "N" -> "n" [] c = "O" -> "o" [] c = "P" -> "p"
       [] c = "Q" -> "q" [] c = "R" -> "r" [] c = "S" -> "s" [] c = "T" -> "t"
       [] c = "U" -> "u" [] c = "V" -> "v" [] c = "W" -> "w" [] c = "X" -> "x"
       [] c = "Y" -> "y" [] c = "Z" -> "z"]

\* String.prototype.toLowerCase
toLowerCase(s) ==
  [i \in 1..Len(s) |-> IF s[i] \in DOMAIN UpperToLower THEN UpperToLower[s[i]] ELSE s[i]]

\* String.prototype.includes: needle occurs in hay as a contiguous substring
includes(hay, needle) ==
  \/ Len(needle) = 0
  \/ \E i \in 0..(Len(hay) - Len(needle)) :
        /\ hay[i + 1] = needle[1]
        /\ SubSeq(hay, i + 1, i + Len(needle)) = needle

\* Array.prototype.join
RECURSIVE join(_, _)
join(arr, sep) ==
  IF Len(arr) = 0 THEN <<>>
  ELSE IF Len(arr) = 1 THEN arr[1]
  ELSE arr[1] \o sep \o join(Tail(arr), sep)

\* Array.prototype.some / every / find over a predicate given as a boolean sequence
RECURSIVE some(_)
some(bs) == IF Len(bs) = 0 THEN FALSE ELSE IF Head(bs) THEN TRUE ELSE some(Tail(bs))

RECURSIVE every(_)
every(bs) == IF Len(bs) = 0 THEN TRUE ELSE IF ~Head(bs) THEN FALSE ELSE every(Tail(bs))

(* ------------------------------ menu items ------------------------------ *)
\* Items the content source can return.  tags and healthInfo are optional in
\* the JSON the service parses; name and description are always present.
PeanutSatay ==
  [name |-> <<"P","e","a","n","u","t"," ","S","a","t","a","y"," ","S","k","e","w","e","r","s">>, description |-> <<"C","h","i","c","k","e","n"," ","i","n"," ","p","e","a","n","u","t"," ","s","a","u","c","e">>,
   tags |-> << <<"t","h","a","i">> >>, healthInfo |-> [dietaryTags |-> << <<"h","i","g","h","-","p","r","o","t","e","i","n">> >>]]
PadThai ==
  [name |-> <<"P","a","d"," ","T","h","a","i">>, description |-> <<"R","i","c","e"," ","n","o","o","d","l","e","s"," ","w","i","t","h"," ","P","e","a","n","u","t","s">>,
   tags |-> << <<"S","p","i","c","y">>, <<"t","h","a","i">> >>]
TofuBowl ==
  [name |-> <<"S","p","i","c","y"," ","T","o","f","u"," ","B","o","w","l">>, description |-> <<"C","r","i","s","p","y"," ","t","o","f","u"," ","a","n","d"," ","g","r","e","e","n","s">>,
   tags |-> << <<"v","e","g","a","n">>, <<"p","e","a","n","u","t","-","f","r","e","e">> >>,
   healthInfo |-> [dietaryTags |-> << <<"K","e","t","o">>, <<"n","o"," ","p","e","a","n","u","t","s">> >>]]
GardenSalad ==
  [name |-> <<"G","a","r","d","e","n"," ","S","a","l","a","d">>, description |-> <<"M","i","x","e","d"," ","g","r","e","e","n","s">>,
   tags |-> << >>, healthInfo |-> [calories |-> 120]]
BeefBurger ==
  [name |-> <<"B","e","e","f"," ","B","u","r","g","e","r">>, description |-> <<"H","a","l","a","l"," ","b","e","e","f"," ","a","n","d"," ","c","h","e","e","s","e">>,
   tags |-> << <<"g","r","i","l","l">> >>, healthInfo |-> [dietaryTags |-> << <<"n","o","n","-","v","e","g","a","n">> >>]]
SteamedRice ==
  [name |-> <<"S","t","e","a","m","e","d"," ","R","i","c","e">>, description |-> <<"P","l","a","i","n"," ","r","i","c","e">>]

Menus ==
  { <<PeanutSatay>>, <<PadThai>>, <<TofuBowl>>, <<GardenSalad>>, <<BeefBurger>>,
    <<SteamedRice>>, <<BeefBurger, TofuBowl>>, <<TofuBowl, TofuBowl>> }

PrefLabels == { <<"V","e","g","a","n">>, <<"K","e","t","o">>, <<"H","a","l","a","l">> }
AllergenLabels == { <<"P","e","a","n","u","t","s">>, <<"p","e","a","n","u","t">> }
TasteLabels == { <<"S","p","i","c","y">>, <<"t","h","a","i">> }

\* lists without repeated labels, of length at most n
ListsUpTo(S, n) ==
  UNION { { s \in [1..k -> S] : \A i, j \in 1..k : s[i] = s[j] => i = j } : k \in 0..n }

(* ------------------------ program constants ----------------------------- *)
\* Math.floor(Math.random() * 30) + 60
BaseSpan == 30
BaseMin == 60
TasteBoost == 15
DietBoost == 30
ScoreCap == 100
\* RestaurantDetail: matchScore >= 85 is a "Perfect Match"
PerfectThreshold == 85

(* --------------------- optional fields of a menu item ------------------- *)
HasTags(item) == "tags" \in DOMAIN item

\* item.healthInfo?.dietaryTags is not undefined
HasDietaryTags(item) ==
  "healthInfo" \in DOMAIN item /\ "dietaryTags" \in DOMAIN item.healthInfo

(* ------------------------- DietSafetyFilter ----------------------------- *)
nonVegan ==
  << <<"c","h","i","c","k","e","n">>, <<"b","e","e","f">>, <<"p","o","r","k">>, <<"f","i","s","h">>, <<"s","e","a","f","o","o","d">>, <<"m","e","a","t">>, <<"d","a","i","r","y">>, <<"c","h","e","e","s","e">>, <<"m","i","l","k">>,
     <<"b","u","t","t","e","r">>, <<"e","g","g">>, <<"s","h","r","i","m","p">>, <<"s","a","l","m","o","n">>, <<"t","u","n","a">>, <<"t","u","r","k","e","y">>, <<"l","a","m","b">>, <<"b","a","c","o","n">>, <<"h","o","n","e","y">> >>
nonVegetarian ==
  << <<"c","h","i","c","k","e","n">>, <<"b","e","e","f">>, <<"p","o","r","k">>, <<"f","i","s","h">>, <<"s","e","a","f","o","o","d">>, <<"m","e","a","t">>, <<"s","h","r","i","m","p">>, <<"s","a","l","m","o","n">>, <<"t","u","n","a">>,
     <<"t","u","r","k","e","y">>, <<"l","a","m","b">>, <<"b","a","c","o","n">>, <<"h","a","m">> >>
gluten == << <<"w","h","e","a","t">>, <<"f","l","o","u","r">>, <<"b","r","e","a","d">>, <<"p","a","s","t","a">>, <<"n","o","o","d","l","e","s">>, <<"s","o","y"," ","s","a","u","c","e">>, <<"b","e","e","r">> >>
highCarb ==
  << <<"r","i","c","e">>, <<"b","r","e","a","d">>, <<"p","a","s","t","a">>, <<"p","o","t","a","t","o">>, <<"f","r","i","e","s">>, <<"n","o","o","d","l","e","s">>, <<"q","u","i","n","o","a">>, <<"b","a","r","l","e","y">> >>
nonPaleo ==
  << <<"d","a","i","r","y">>, <<"c","h","e","e","s","e">>, <<"m","i","l","k">>, <<"w","h","e","a","t">>, <<"b","r","e","a","d">>, <<"r","i","c","e">>, <<"l","e","g","u","m","e","s">>, <<"b","e","a","n","s">> >>

\* `${name} ${description} ${tags.join(' ')} ${dietaryTags?.join(' ') || ''}`.toLowerCase()
dietItemText(item) ==
  toLowerCase(item.name \o <<" ">> \o item.description \o <<" ">> \o join(item.tags, <<" ">>) \o <<" ">>
              \o (IF HasDietaryTags(item) THEN join(item.healthInfo.dietaryTags, <<" ">>)
                  ELSE <<>>))

\* some keyword of the list occurs in the text
anyKeyword(keywords, text) ==
  some([k \in 1..Len(keywords) |-> includes(text, keywords[k])])

\* the callback of preferences.every: is one preference met by the item
prefSatisfied(item, itemText, pref) ==
  LET prefLower == toLowerCase(pref)
      dtags == item.healthInfo.dietaryTags
  IN IF some([k \in 1..Len(item.tags) |-> includes(toLowerCase(item.tags[k]), prefLower)])
       THEN TRUE
     ELSE IF HasDietaryTags(item)
             /\ some([k \in 1..Len(dtags) |-> includes(toLowerCase(dtags[k]), prefLower)])
       THEN TRUE
     ELSE IF includes(prefLower, <<"v","e","g","a","n">>) THEN ~anyKeyword(nonVegan, itemText)
     ELSE IF includes(prefLower, <<"v","e","g","e","t","a","r","i","a","n">>) THEN ~anyKeyword(nonVegetarian, itemText)
     ELSE IF includes(prefLower, <<"g","l","u","t","e","n","-","f","r","e","e">>) \/ includes(prefLower, <<"g","l","u","t","e","n">>)
       THEN ~anyKeyword(gluten, itemText)
     ELSE IF includes(prefLower, <<"k","e","t","o">>) THEN ~anyKeyword(highCarb, itemText)
     ELSE IF includes(prefLower, <<"p","a","l","e","o">>) THEN ~anyKeyword(nonPaleo, itemText)
     ELSE includes(itemText, prefLower)

\* matchesDietaryRequirements throws a TypeError at item.tags.join when the
\* item has no tags and at least one preference is supplied
dietCheckThrows(item, preferences) == Len(preferences) > 0 /\ ~HasTags(item)

\* only the first preference is tested
matchesDietaryRequirements_First(item, preferences) ==
  IF Len(preferences) = 0 THEN TRUE
  ELSE prefSatisfied(item, dietItemText(item), preferences[1])

\* the pre-fix behaviour: one met preference is enough
matchesDietaryRequirements_Some(item, preferences) ==
  IF Len(preferences) = 0 THEN TRUE
  ELSE LET itemText == dietItemText(item)
       IN some([k \in 1..Len(preferences) |-> prefSatisfied(item, itemText, preferences[k])])

\* matchesDietaryRequirements, for an item on which it does not throw
matchesDietaryRequirements(item, preferences) ==
  IF Len(preferences) = 0 THEN TRUE
  ELSE LET itemText == dietItemText(item)
       IN every([k \in 1..Len(preferences) |-> prefSatisfied(item, itemText, preferences[k])])

\* the item text compared without lowercasing it
isAllergenSafe_CaseSensitive(item, allergenList) ==
  IF Len(allergenList) = 0 THEN TRUE
  ELSE LET itemText == item.name \o <<" ">> \o item.description
       IN ~some([k \in 1..Len(allergenList) |->
                   includes(itemText, toLowerCase(allergenList[k]))])

isAllergenSafe(item, allergenList) ==
  IF Len(allergenList) = 0 THEN TRUE
  ELSE LET itemText == toLowerCase(item.name \o <<" ">> \o item.description)
       IN ~some([k \in 1..Len(allergenList) |->
                   includes(itemText, toLowerCase(allergenList[k]))])

(* ----------------------------- MatchScorer ----------------------------- *)
VARIABLES
  tasteProfile,        \* props of RestaurantDetail, captured by the fetch
  dietaryPreferences,
  allergens,
  pc,                  \* fetchRestaurantData: "awaiting" the service, or "settled"
  restaurantData,      \* the menu parsed from the content source's answer
  verdicts,            \* per item, the callback's meetsDietaryReqs and allergenSafe
  restaurant,          \* useState: null, or the data with the enriched menu
  loading,             \* useState
  error,               \* useState: null, or the message shown
  requests             \* the fetches started by re-renders of a mounted RestaurantDetail

scorerVars == <<tasteProfile, dietaryPreferences, allergens, pc, restaurantData, verdicts,
                restaurant, loading, error, requests>>

\* findMyFoodService.ts: the rating data a run works on, and what
\* calculateUserSimilarity and getTypeScriptRecommendations computed from it
VARIABLES
  ratingData,          \* the reviews parameter / the REVIEW_DATA in use
  compared,            \* null, or one pair of users and their two similarities
  targetUser,          \* the arguments targetUserId and topN of the call
  listSize,
  similarities,        \* the engine's neighbor pool (const similarities)
  candidates,          \* const recommendations before .slice(0, topN)
  recommendations      \* null, or the promise fulfilled with the returned list

engineVars == <<ratingData, compared, targetUser, listSize, similarities, candidates,
                recommendations>>

\* getFindMyFoodRecommendations: the alternate engine first, then the fallback
VARIABLES
  alternate,           \* null, or what the environment did to getPythonRecommendations
  pythonResults,       \* const pythonResults
  findMyFood,          \* null, or the settled promise of getFindMyFoodRecommendations
  python,              \* null, or the child process: the events it has emitted
  stdoutData,          \* let stdoutData
  stderrData,          \* let stderrData
  executed             \* null, or the promise of executePythonScript

fallbackVars == <<alternate, pythonResults, findMyFood, python, stdoutData, stderrData,
                  executed>>

\* favoritesService.ts and dashboardService.ts: the module-level caches, the
\* loads their guards started, and the promises handed to the callers
VARIABLES
  cachedFavorites,                \* null, or the cached list
  loadingPromise,                 \* null, or the promise of a load
  favoritesLoads,                 \* the async bodies started by loadDefaultFavorites
  cachedRecommendations,          \* null, or the cached DashboardRecommendations
  loadingRecommendationsPromise,  \* null, or the promise of a load
  recommendationLoads,            \* the async bodies started by generateDashboardRecommendations
  calls                           \* per call, the resource asked for and the promise returned

guardVars == <<cachedFavorites, loadingPromise, favoritesLoads, cachedRecommendations,
               loadingRecommendationsPromise, recommendationLoads, calls>>

vars == <<scorerVars, engineVars, fallbackVars, guardVars>>

\* RestaurantDetail is not mounted
ScorerIdle ==
  /\ tasteProfile = <<>>
  /\ dietaryPreferences = <<>>
  /\ allergens = <<>>
  /\ pc = "unmounted"
  /\ restaurantData = null
  /\ verdicts = <<>>
  /\ restaurant = null
  /\ loading = FALSE
  /\ error = null
  /\ requests = <<>>

\* the recommendation engine has not been called
EngineIdle ==
  /\ ratingData = <<>>
  /\ compared = null
  /\ targetUser = 0
  /\ listSize = 0
  /\ similarities = <<>>
  /\ candidates = <<>>
  /\ recommendations = null

\* getFindMyFoodRecommendations has not been called
FallbackIdle ==
  /\ alternate = null
  /\ pythonResults = null
  /\ findMyFood = null
  /\ python = null
  /\ stdoutData = <<>>
  /\ stderrData = <<>>
  /\ executed = null

\* the services are freshly imported: nothing cached, nothing loading
GuardIdle ==
  /\ cachedFavorites = null
  /\ loadingPromise = null
  /\ favoritesLoads = <<>>
  /\ cachedRecommendations = null
  /\ loadingRecommendationsPromise = null
  /\ recommendationLoads = <<>>
  /\ calls = <<>>

\* the disqualification test with && in place of ||
zeroFloored_And(preferences, meetsDietaryReqs, allergenSafe) ==
  (Len(preferences) > 0 /\ ~meetsDietaryReqs) /\ ~allergenSafe

\* the disqualification test with the length test inverted
zeroFloored_NoPrefs(preferences, meetsDietaryReqs, allergenSafe) ==
  (Len(preferences) = 0 \/ ~meetsDietaryReqs) \/ ~allergenSafe

\* (dietaryPreferences.length > 0 && !meetsDietaryReqs) || !allergenSafe
zeroFloored(preferences, meetsDietaryReqs, allergenSafe) ==
  (Len(preferences) > 0 /\ ~meetsDietaryReqs) \/ ~allergenSafe

\* one taste keyword against the item's tags, name and description
tasteHit(item, t) ==
  LET tLower == toLowerCase(t)
  IN \/ some([k \in 1..Len(item.tags) |-> includes(toLowerCase(item.tags[k]), tLower)])
     \/ includes(toLowerCase(item.name), tLower)
     \/ includes(toLowerCase(item.description), tLower)

\* tasteProfile.some(...) throws a TypeError at item.tags.some when the item
\* has no tags and at least one taste keyword is supplied
tasteCheckThrows(item, taste) == Len(taste) > 0 /\ ~HasTags(item)

tasteMatches(item, taste) ==
  some([k \in 1..Len(taste) |-> tasteHit(item, taste[k])])

\* the diet boost placed in an else-branch of the taste boost
matchScoreOf_ElseIf(rnd, tasteMatch, dietMet) ==
  LET base == rnd + BaseMin
      boosted == IF tasteMatch THEN base + TasteBoost
                 ELSE IF dietMet THEN base + DietBoost ELSE base
  IN IF boosted < ScoreCap THEN boosted ELSE ScoreCap

\* base 60..89, +15 on a taste match, +30 when preferences are given and met, cap 100
matchScoreOf(rnd, tasteMatch, dietMet) ==
  LET base == rnd + BaseMin
      withTaste == IF tasteMatch THEN base + TasteBoost ELSE base
      withDiet == IF dietMet THEN withTaste + DietBoost ELSE withTaste
  IN IF withDiet < ScoreCap THEN withDiet ELSE ScoreCap

\* the keywords t with item.name.toLowerCase().includes(t.toLowerCase());
\* tasteProfile.some is whether there is one, tasteProfile.find is the first
inName(item, taste) ==
  SelectSeq(taste, LAMBDA t : includes(toLowerCase(item.name), toLowerCase(t)))

\* the matchReasons list as pushed; the callback stores undefined when it is empty
matchReasonsOf(item, taste, preferences, meetsDietaryReqs) ==
  LET tasteReason == IF Len(inName(item, taste)) > 0
                     THEN <<[kind |-> "taste", label |-> Head(inName(item, taste))]>>
                     ELSE <<>>
      dietReason == IF Len(preferences) > 0 /\ meetsDietaryReqs
                    THEN <<[kind |-> "diet", label |-> preferences[1]]>>
                    ELSE <<>>
  IN tasteReason \o dietReason

\* does the map callback throw on this item
itemThrows(item, taste, preferences, allergenList) ==
  IF dietCheckThrows(item, preferences) THEN TRUE
  ELSE /\ ~zeroFloored(preferences, matchesDietaryRequirements(item, preferences),
                       isAllergenSafe(item, allergenList))
       /\ tasteCheckThrows(item, taste)

\* what the map callback computes for an item apart from the random draw:
\* meetsDietaryReqs, allergenSafe, the taste test and the reasons
verdictOf(item, taste, preferences, allergenList) ==
  LET meets == matchesDietaryRequirements(item, preferences)
      safe == isAllergenSafe(item, allergenList)
      floored == zeroFloored(preferences, meets, safe)
  IN [meetsDietaryReqs |-> meets,
      allergenSafe |-> safe,
      floored |-> floored,
      tasteMatch |-> IF floored THEN FALSE ELSE tasteMatches(item, taste),
      matchReasons |-> IF floored THEN <<>>
                       ELSE matchReasonsOf(item, taste, preferences, meets)]

\* the lowest draw taken as a reason to floor the item
enrichItem_DrawDecides(item, index, rnd, v, preferences) ==
  IF v.floored \/ rnd = 0
  THEN [id |-> index, matchScore |-> 0] @@ item
  ELSE LET scored == [id |-> index,
                      matchScore |-> matchScoreOf(rnd, v.tasteMatch,
                                        Len(preferences) > 0 /\ v.meetsDietaryReqs)]
                     @@ item
       IN IF Len(v.matchReasons) > 0
          THEN [matchReasons |-> v.matchReasons] @@ scored
          ELSE scored

\* the map callback: the item with id, matchScore and matchReasons added; a
\* matchReasons of undefined is a record without that field
enrichItem(item, index, rnd, v, preferences) ==
  IF v.floored
  THEN [id |-> index, matchScore |-> 0] @@ item
  ELSE LET scored == [id |-> index,
                      matchScore |-> matchScoreOf(rnd, v.tasteMatch,
                                        Len(preferences) > 0 /\ v.meetsDietaryReqs)]
                     @@ item
       IN IF Len(v.matchReasons) > 0
          THEN [matchReasons |-> v.matchReasons] @@ scored
          ELSE scored

(* --------------------------- RestaurantDetail --------------------------- *)
\* item.matchScore || 0
scoreOrZero(item) == IF "matchScore" \in DOMAIN item THEN item.matchScore ELSE 0

\* [...menu].sort((a, b) => (b.matchScore || 0) - (a.matchScore || 0)), a stable sort
RECURSIVE insertByScore(_, _)
insertByScore(sorted, item) ==
  IF Len(sorted) = 0 THEN <<item>>
  ELSE IF scoreOrZero(Head(sorted)) >= scoreOrZero(item)
       THEN <<Head(sorted)>> \o insertByScore(Tail(sorted), item)
       ELSE <<item>> \o sorted

RECURSIVE sortedMenu(_)
sortedMenu(menu) ==
  IF Len(menu) = 0 THEN <<>>
  ELSE insertByScore(sortedMenu(SubSeq(menu, 1, Len(menu) - 1)), menu[Len(menu)])

\* sortedMenu.filter(item => score >= 85 && score > 0)
topMatches(menu) ==
  SelectSeq(sortedMenu(menu),
            LAMBDA item : scoreOrZero(item) >= PerfectThreshold /\ scoreOrZero(item) > 0)

(* ------------------------------- behaviour ------------------------------ *)
\* the component is mounted with its props; the effect has set loading and
\* called generateRestaurantData, which awaits the content source
Init ==
  /\ tasteProfile \in ListsUpTo(TasteLabels, MaxTaste)
  /\ dietaryPreferences \in ListsUpTo(PrefLabels, MaxPrefs)
  /\ allergens \in ListsUpTo(AllergenLabels, MaxAllergens)
  /\ pc = "awaiting"
  /\ restaurantData = null
  /\ verdicts = <<>>
  /\ restaurant = null
  /\ loading = TRUE
  /\ error = null
  /\ requests = <<>>
  /\ EngineIdle
  /\ FallbackIdle
  /\ GuardIdle

\* the content source answers with a menu, every item is scored, and
\* generateRestaurantData resolves: setRestaurant(data), setLoading(false)
FetchResolves ==
  /\ pc = "awaiting"
  /\ \E menu \in Menus :
       /\ \A i \in 1..Len(menu) :
            ~itemThrows(menu[i], tasteProfile, dietaryPreferences, allergens)
       /\ restaurantData' = [menu |-> menu]
       /\ verdicts' = [i \in 1..Len(menu) |->
                         verdictOf(menu[i], tasteProfile, dietaryPreferences, allergens)]
       /\ \E rnd \in [1..Len(menu) -> 0..(BaseSpan - 1)] :
            restaurant' = [menu |-> [i \in 1..Len(menu) |->
                                       enrichItem(menu[i], i, rnd[i], verdicts'[i],
                                                  dietaryPreferences)]]
  /\ pc' = "settled"
  /\ loading' = FALSE
  /\ UNCHANGED <<tasteProfile, dietaryPreferences, allergens, error, requests>>
  /\ UNCHANGED <<engineVars, fallbackVars, guardVars>>

\* the content source answers with a menu and the map callback throws on one
\* of its items: generateRestaurantData rethrows, setError(...), setLoading(false)
ScoringThrows ==
  /\ pc = "awaiting"
  /\ \E menu \in Menus :
       /\ \E i \in 1..Len(menu) :
            itemThrows(menu[i], tasteProfile, dietaryPreferences, allergens)
       /\ restaurantData' = [menu |-> menu]
  /\ error' = [message |-> "Failed to load restaurant information"]
  /\ pc' = "settled"
  /\ loading' = FALSE
  /\ UNCHANGED <<tasteProfile, dietaryPreferences, allergens, verdicts, restaurant,
                 requests>>
  /\ UNCHANGED <<engineVars, fallbackVars, guardVars>>

\* no API key, a response that is not ok, no content, or content that is not
\* JSON: generateRestaurantData throws before any item is scored
RequestFails ==
  /\ pc = "awaiting"
  /\ error' = [message |-> "Failed to load restaurant information"]
  /\ pc' = "settled"
  /\ loading' = FALSE
  /\ UNCHANGED <<tasteProfile, dietaryPreferences, allergens, restaurantData, verdicts,
                 restaurant, requests>>
  /\ UNCHANGED <<engineVars, fallbackVars, guardVars>>

Next == FetchResolves \/ ScoringThrows \/ RequestFails

Spec == Init /\ [][Next]_vars

(* ------------------------------ properties ------------------------------ *)
\* the answer of the content source has been scored and handed to the component
Loaded == pc = "settled" /\ restaurant # null

\* the item of the content source's answer that enriched item number i came from
RawItem(i) == restaurantData.menu[i]

Reverse(s) == [i \in 1..Len(s) |-> s[Len(s) + 1 - i]]

\* one requirement taken alone is met by the item
Satisfies(item, pref) == prefSatisfied(item, dietItemText(item), pref)

\* every requirement of the list is met by the item
SatisfiesAll(item, prefs) ==
  LET text == dietItemText(item)
  IN \A r \in Range(prefs) : prefSatisfied(item, text, r)

\* some allergen label occurs, ignoring case, in name + " " + description
AllergenNamed(item, labels) ==
  LET text == toLowerCase(item.name \o <<" ">> \o item.description)
  IN \E a \in Range(labels) : includes(text, toLowerCase(a))

\* the ids of the items shown under "Perfect Matches"
PerfectIds == {item.id : item \in Range(topMatches(restaurant.menu))}

\* C1: every item listed under "Perfect Matches" meets all the supplied dietary
\* preferences, names none of the supplied allergens in its name or
\* description, and was not zero-floored.
C1_PerfectMatchesRespectConstraints ==
  Loaded =>
    \A i \in PerfectIds :
      /\ restaurant.menu[i].matchScore >= PerfectThreshold
      /\ ~verdicts[i].floored
      /\ ~AllergenNamed(RawItem(i), allergens)
      /\ SatisfiesAll(RawItem(i), dietaryPreferences)

\* a menu with a perfect match and a zero-floored item, under both a dietary
\* preference and an allergen
C1_Witness ==
  /\ Loaded
  /\ Len(dietaryPreferences) > 0
  /\ Len(allergens) > 0
  /\ PerfectIds # {}
  /\ \E i \in 1..Len(restaurant.menu) : verdicts[i].floored /\ i \notin PerfectIds

\* C2: with a non-empty requirement list, an item that fails one requirement
\* scores exactly 0 and has no reasons, whatever the base score and whether or
\* not a taste keyword matches.
C2_UnmetRequirementZeroes ==
  (Loaded /\ Len(dietaryPreferences) > 0) =>
    \A i \in 1..Len(restaurant.menu) :
      ~SatisfiesAll(RawItem(i), dietaryPreferences) =>
        /\ restaurant.menu[i].matchScore = 0
        /\ "matchReasons" \notin DOMAIN restaurant.menu[i]

\* an item that meets one of two requirements, fails the other and matches a
\* taste keyword
C2_Witness ==
  /\ Loaded
  /\ Len(dietaryPreferences) = 2
  /\ \E i \in 1..Len(restaurant.menu) :
       /\ \E r \in Range(dietaryPreferences) : Satisfies(RawItem(i), r)
       /\ \E r \in Range(dietaryPreferences) : ~Satisfies(RawItem(i), r)
       /\ tasteMatches(RawItem(i), tasteProfile)
       /\ restaurant.menu[i].matchScore = 0

\* C3: an item scores 0 whenever an allergen label occurs, ignoring case, in
\* its name or description, also without dietary requirements; the allergen
\* verdict depends on name and description only.
C3_AllergenZeroes ==
  Loaded =>
    \A i \in 1..Len(restaurant.menu) :
      /\ AllergenNamed(RawItem(i), allergens) => restaurant.menu[i].matchScore = 0
      /\ verdicts[i].allergenSafe = ~AllergenNamed(RawItem(i), allergens)

\* without dietary requirements, an item that names the allergen only in
\* another letter case is zeroed
C3_Witness ==
  /\ Loaded
  /\ Len(dietaryPreferences) = 0
  /\ \E i \in 1..Len(restaurant.menu) :
       /\ AllergenNamed(RawItem(i), allergens)
       /\ ~includes(RawItem(i).name \o <<" ">> \o RawItem(i).description, allergens[1])
       /\ restaurant.menu[i].matchScore = 0

\* C4: matchesDietaryRequirements is true exactly when the list is empty or
\* every requirement is met on its own, in whatever order they are listed.
C4_CompliantIffEveryRequirement ==
  Loaded =>
    \A i \in 1..Len(restaurant.menu) :
      /\ verdicts[i].meetsDietaryReqs =
           (Len(dietaryPreferences) = 0 \/ SatisfiesAll(RawItem(i), dietaryPreferences))
      /\ verdicts[i].meetsDietaryReqs =
           matchesDietaryRequirements(RawItem(i), Reverse(dietaryPreferences))

\* an item that meets the first of two requirements and not the second
C4_Witness ==
  /\ Loaded
  /\ Len(dietaryPreferences) = 2
  /\ \E i \in 1..Len(restaurant.menu) :
       /\ Satisfies(RawItem(i), dietaryPreferences[1])
       /\ ~Satisfies(RawItem(i), dietaryPreferences[2])
       /\ ~verdicts[i].meetsDietaryReqs

\* C5: with the allergen list {"Peanuts"}, every item whose name or
\* description contains "peanut" scores 0, whatever the dietary requirements.
C5_PeanutsZeroesPeanutItems ==
  (Loaded /\ allergens = << <<"P","e","a","n","u","t","s">> >>) =>
    \A i \in 1..Len(restaurant.menu) :
      includes(toLowerCase(RawItem(i).name \o <<" ">> \o RawItem(i).description), <<"p","e","a","n","u","t">>)
        => restaurant.menu[i].matchScore = 0

\* a preference of the given category is among the supplied ones
Requested(category) ==
  \E r \in Range(dietaryPreferences) : includes(toLowerCase(r), category)

\* the item's normalized text contains a keyword of the list
Blocked(i, keywords) == anyKeyword(keywords, dietItemText(RawItem(i)))

\* C6: with a preference of a known category, every item whose normalized
\* text contains one of the category's exclusion keywords scores 0 and is not
\* a perfect match.
C6_ExclusionKeywordsBlock ==
  Loaded =>
    \A i \in 1..Len(restaurant.menu) :
      ( \/ Requested(<<"v","e","g","a","n">>) /\ Blocked(i, nonVegan)
        \/ Requested(<<"v","e","g","e","t","a","r","i","a","n">>) /\ Blocked(i, nonVegetarian)
        \/ Requested(<<"g","l","u","t","e","n">>) /\ Blocked(i, gluten)
        \/ Requested(<<"k","e","t","o">>) /\ Blocked(i, highCarb)
        \/ Requested(<<"p","a","l","e","o">>) /\ Blocked(i, nonPaleo) )
      => (restaurant.menu[i].matchScore = 0 /\ i \notin PerfectIds)

\* C7: an item with no boost (no taste keyword matches, no dietary requirement)
\* scores below the perfect-match threshold and is not a perfect match.
C7_UnboostedBelowThreshold ==
  Loaded =>
    \A i \in 1..Len(restaurant.menu) :
      (Len(dietaryPreferences) = 0 /\ ~verdicts[i].tasteMatch)
        => (restaurant.menu[i].matchScore < PerfectThreshold /\ i \notin PerfectIds)

\* C8: with a non-empty requirement list, an item that meets every requirement
\* and names no allergen scores between 90 and 100 and is a perfect match.
C8_CompliantScoresNinetyPlus ==
  (Loaded /\ Len(dietaryPreferences) > 0) =>
    \A i \in 1..Len(restaurant.menu) :
      (SatisfiesAll(RawItem(i), dietaryPreferences) /\ ~AllergenNamed(RawItem(i), allergens))
        => /\ restaurant.menu[i].matchScore >= BaseMin + DietBoost
           /\ restaurant.menu[i].matchScore <= ScoreCap
           /\ i \in PerfectIds

\* a compliant, allergen-free, taste-matched item whose score is capped at 100
C8_Witness ==
  /\ Loaded
  /\ Len(dietaryPreferences) > 0
  /\ Len(allergens) > 0
  /\ \E i \in 1..Len(restaurant.menu) :
       /\ SatisfiesAll(RawItem(i), dietaryPreferences)
       /\ ~AllergenNamed(RawItem(i), allergens)
       /\ verdicts[i].tasteMatch
       /\ restaurant.menu[i].matchScore = ScoreCap
       /\ i \in PerfectIds

\* C9: with no dietary requirement and no allergen, every item scores above 0,
\* whatever the taste keywords and the base score.
C9_NoConstraintNoZero ==
  (Loaded /\ Len(dietaryPreferences) = 0 /\ Len(allergens) = 0) =>
    \A i \in 1..Len(restaurant.menu) :
      /\ restaurant.menu[i].matchScore > 0
      /\ ~verdicts[i].floored

\* an unconstrained search with a taste keyword, an item at the lowest base
C9_Witness ==
  /\ Loaded
  /\ Len(dietaryPreferences) = 0
  /\ Len(allergens) = 0
  /\ Len(tasteProfile) > 0
  /\ \E i \in 1..Len(restaurant.menu) : restaurant.menu[i].matchScore = BaseMin

\* the item with a missing tags list replaced by an empty one
WithTags(item) == IF HasTags(item) THEN item ELSE [tags |-> <<>>] @@ item

\* C10: once the content source has answered, scoring does not fail: the fetch
\* ends without error and every item carries the score and reasons that the
\* same item with tags = [] gets for some base score.
C10_MissingTagsScoredAsEmpty ==
  (pc = "settled" /\ restaurantData # null) =>
    /\ error = null
    /\ restaurant # null
    /\ \A i \in 1..Len(restaurantData.menu) :
         \E rnd \in 0..(BaseSpan - 1) :
           LET item == WithTags(RawItem(i))
               expected == enrichItem(item, i, rnd,
                             verdictOf(item, tasteProfile, dietaryPreferences, allergens),
                             dietaryPreferences)
           IN /\ restaurant.menu[i].matchScore = expected.matchScore
              /\ ("matchReasons" \in DOMAIN restaurant.menu[i])
                   = ("matchReasons" \in DOMAIN expected)

(* ------------------------- JavaScript numbers -------------------------- *)
(* findMyFoodService.ts computes similarities and predicted ratings with   *)
(* JavaScript numbers, IEEE 754 binary64. A finite number >= 0 is modelled *)
(* as [m, e], standing for m * 2^e with m a natural of exactly 53 bits, or *)
(* as FZero; every operation rounds its exact result to the nearest such   *)
(* number, ties to even. Naturals wider than TLC's integers are sequences  *)
(* of base-2^15 digits, least significant first, without leading zeros.    *)

\* the radix of the digit sequences
Base == 32768
\* the bits of one digit
DigitBits == 15
\* the bits of a binary64 significand
MantissaBits == 53
\* the quotient digits a division works out before it rounds
QuotientDigits == 4

RECURSIVE Pow2(_)
Pow2(n) == IF n = 0 THEN 1 ELSE 2 * Pow2(n - 1)

RECURSIVE BNorm(_)
BNorm(a) ==
  IF a = <<>> THEN <<>>
  ELSE IF a[Len(a)] = 0 THEN BNorm(SubSeq(a, 1, Len(a) - 1)) ELSE a

RECURSIVE BAddC(_, _, _)
BAddC(a, b, c) ==
  IF a = <<>> /\ b = <<>> THEN (IF c = 0 THEN <<>> ELSE <<c>>)
  ELSE IF a = <<>> THEN BAddC(b, a, c)
  ELSE IF b = <<>>
       THEN (IF c = 0 THEN a
             ELSE <<(a[1] + c) % Base>> \o BAddC(Tail(a), b, (a[1] + c) \div Base))
  ELSE <<(a[1] + b[1] + c) % Base>> \o
       BAddC(Tail(a), Tail(b), (a[1] + b[1] + c) \div Base)

BAdd(a, b) == BAddC(a, b, 0)

\* a - b - c for a >= b + c
RECURSIVE BSubC(_, _, _)
BSubC(a, b, c) ==
  IF a = <<>> THEN <<>>
  ELSE IF b = <<>> /\ c = 0 THEN a
  ELSE IF b = <<>>
       THEN <<(a[1] - c + Base) % Base>> \o BSubC(Tail(a), b, IF a[1] < c THEN 1 ELSE 0)
  ELSE <<(a[1] - b[1] - c + Base) % Base>> \o
       BSubC(Tail(a), Tail(b), IF a[1] < b[1] + c THEN 1 ELSE 0)

BSub(a, b) == BNorm(BSubC(a, b, 0))

RECURSIVE BCmpAt(_, _, _)
BCmpAt(a, b, i) ==
  IF i = 0 THEN 0
  ELSE IF a[i] < b[i] THEN -1
  ELSE IF a[i] > b[i] THEN 1
  ELSE BCmpAt(a, b, i - 1)

\* -1, 0 or 1 as a is below, equal to or above b
BCmp(a, b) ==
  IF Len(a) < Len(b) THEN -1
  ELSE IF Len(a) > Len(b) THEN 1
  ELSE BCmpAt(a, b, Len(a))

RECURSIVE BMulSmallC(_, _, _)
BMulSmallC(a, k, c) ==
  IF a = <<>> THEN (IF c = 0 THEN <<>> ELSE <<c>>)
  ELSE <<(a[1] * k + c) % Base>> \o BMulSmallC(Tail(a), k, (a[1] * k + c) \div Base)

\* a * k for one digit k
BMulSmall(a, k) == IF k = 0 THEN <<>> ELSE BMulSmallC(a, k, 0)

\* a * Base
BDigitShift(a) == IF a = <<>> THEN <<>> ELSE <<0>> \o a

RECURSIVE BMul(_, _)
BMul(a, b) ==
  IF b = <<>> THEN <<>>
  ELSE BAdd(BMulSmall(a, b[1]), BDigitShift(BMul(a, Tail(b))))

\* a * 2^s
RECURSIVE BShl(_, _)
BShl(a, s) ==
  IF s >= DigitBits THEN BShl(BDigitShift(a), s - DigitBits)
  ELSE IF s = 0 THEN a ELSE BMulSmallC(a, Pow2(s), 0)

RECURSIVE BDivSmallAt(_, _, _, _)
BDivSmallAt(a, k, i, r) ==
  IF i = 0 THEN <<>>
  ELSE BDivSmallAt(a, k, i - 1, (r * Base + a[i]) % k) \o <<(r * Base + a[i]) \div k>>

\* the integer part of a / k for one digit k
BDivSmall(a, k) == BNorm(BDivSmallAt(a, k, Len(a), 0))

\* the integer part of a / 2^s
RECURSIVE BShr(_, _)
BShr(a, s) ==
  IF a = <<>> THEN <<>>
  ELSE IF s >= DigitBits THEN BShr(Tail(a), s - DigitBits)
  ELSE IF s = 0 THEN a ELSE BDivSmall(a, Pow2(s))

RECURSIVE DigitLen(_)
DigitLen(x) == IF x = 0 THEN 0 ELSE 1 + DigitLen(x \div 2)

\* the number of bits of a
BitLen(a) == IF a = <<>> THEN 0 ELSE DigitBits * (Len(a) - 1) + DigitLen(a[Len(a)])

BOdd(a) == a # <<>> /\ a[1] % 2 = 1

RECURSIVE BFromInt(_)
BFromInt(n) == IF n = 0 THEN <<>> ELSE <<n % Base>> \o BFromInt(n \div Base)

\* the number 0
FZero == [m |-> <<>>, e |-> 0]

\* NaN, the result of 0 / 0
FNaN == [m |-> <<>>, e |-> 1]

\* N * 2^e for N of more than 53 bits, s bits too many: round to nearest, ties to even
FRoundOff(N, e, s) ==
  LET q    == BShr(N, s)
      rest == BSub(N, BShl(q, s))
      c    == BCmp(BAdd(rest, rest), BShl(<<1>>, s))
      q1   == IF c > 0 \/ (c = 0 /\ BOdd(q)) THEN BAdd(q, <<1>>) ELSE q
  IN  IF BitLen(q1) > MantissaBits
      THEN [m |-> BShr(q1, 1), e |-> e + s + 1]
      ELSE [m |-> q1, e |-> e + s]

\* the binary64 number nearest to N * 2^e
FRound(N, e) ==
  IF N = <<>> THEN FZero
  ELSE IF BitLen(N) <= MantissaBits
       THEN [m |-> BShl(N, MantissaBits - BitLen(N)),
             e |-> e - (MantissaBits - BitLen(N))]
       ELSE FRoundOff(N, e, BitLen(N) - MantissaBits)

\* an integer rating or count as a number
FromInt(n) == FRound(BFromInt(n), 0)

\* a * b
FMul(a, b) ==
  IF a.m = <<>> \/ b.m = <<>> THEN FZero ELSE FRound(BMul(a.m, b.m), a.e + b.e)

\* a + b
FAdd(a, b) ==
  IF a.m = <<>> THEN b
  ELSE IF b.m = <<>> THEN a
  ELSE IF a.e >= b.e THEN FRound(BAdd(BShl(a.m, a.e - b.e), b.m), b.e)
  ELSE FRound(BAdd(a.m, BShl(b.m, b.e - a.e)), a.e)

\* one quotient digit: k steps of binary long division of r * 2^k by d, r < d
RECURSIVE BDivDigit(_, _, _, _)
BDivDigit(r, d, k, q) ==
  IF k = 0 THEN <<q, r>>
  ELSE IF BCmp(BAdd(r, r), d) >= 0
       THEN BDivDigit(BSub(BAdd(r, r), d), d, k - 1, 2 * q + 1)
       ELSE BDivDigit(BAdd(r, r), d, k - 1, 2 * q)

\* the integer part of r * Base^n / d and the remainder, for r < d
RECURSIVE BDivDigits(_, _, _, _)
BDivDigits(r, d, n, acc) ==
  IF n = 0 THEN <<BNorm(acc), r>>
  ELSE LET c == BDivDigit(r, d, DigitBits, 0)
       IN  BDivDigits(c[2], d, n - 1, <<c[1]>> \o acc)

\* a / b; the last bit of the quotient handed to FRound says whether a
\* remainder was left
FDiv(a, b) ==
  IF b.m = <<>> THEN FNaN
  ELSE IF a.m = <<>> THEN FZero
  ELSE LET qr == BDivDigits(a.m, BAdd(b.m, b.m), QuotientDigits, <<>>)
       IN  FRound(BAdd(BAdd(qr[1], qr[1]), IF qr[2] = <<>> THEN <<>> ELSE <<1>>),
                  a.e - b.e - DigitBits * QuotientDigits)

\* k steps of the digit-by-digit integer square root
RECURSIVE BSqrtSteps(_, _, _, _)
BSqrtSteps(num, res, bit, k) ==
  IF k = 0 \/ bit = <<>> THEN <<num, res, bit>>
  ELSE IF BCmp(num, BAdd(res, bit)) >= 0
       THEN BSqrtSteps(BSub(num, BAdd(res, bit)), BAdd(BShr(res, 1), bit),
                       BShr(bit, 2), k - 1)
       ELSE BSqrtSteps(num, BShr(res, 1), BShr(bit, 2), k - 1)

\* twice the integer square root, plus one if it is not exact
RECURSIVE BSqrtBits(_, _, _)
BSqrtBits(num, res, bit) ==
  IF bit = <<>> THEN BAdd(BAdd(res, res), IF num = <<>> THEN <<>> ELSE <<1>>)
  ELSE LET c == BSqrtSteps(num, res, bit, DigitBits)
       IN  BSqrtBits(c[1], c[2], c[3])

\* Math.sqrt(a)
FSqrt(a) ==
  IF a.m = <<>> THEN FZero
  ELSE LET s == IF a.e % 2 = 0 THEN MantissaBits + 1 ELSE MantissaBits + 2
       IN  FRound(BSqrtBits(BShl(a.m, s), <<>>, BShl(<<1>>, 2 * MantissaBits)),
                  ((a.e - s) \div 2) - 1)

\* a < b
FLess(a, b) ==
  IF b.m = <<>> THEN FALSE
  ELSE IF a.m = <<>> THEN TRUE
  ELSE IF a.e # b.e THEN a.e < b.e
  ELSE BCmp(a.m, b.m) < 0

(* ------------------------- RecommendationEngine ------------------------ *)
USER_PROFILES ==
  [id \in 1..4 |-> [name |-> <<"Josh", "Sarah", "Miguel", "Priya">>[id], id |-> id]]

REVIEW_DATA == <<
  [user_id |-> 1, restaurant_name |-> "Dishoom", dish_name |-> "Chicken Ruby", rating |-> 5],
  [user_id |-> 1, restaurant_name |-> "Dishoom", dish_name |-> "House Black Daal", rating |-> 5],
  [user_id |-> 1, restaurant_name |-> "Barrafina", dish_name |-> "Jamón Ibérico", rating |-> 4],
  [user_id |-> 1, restaurant_name |-> "Hoppers", dish_name |-> "Bone Marrow Varuval", rating |-> 5],
  [user_id |-> 1, restaurant_name |-> "Bao", dish_name |-> "Classic Bao", rating |-> 4],
  [user_id |-> 2, restaurant_name |-> "Dishoom", dish_name |-> "Chicken Ruby", rating |-> 5],
  [user_id |-> 2, restaurant_name |-> "Dishoom", dish_name |-> "Pau Bhaji", rating |-> 4],
  [user_id |-> 2, restaurant_name |-> "Gymkhana", dish_name |-> "Kid Goat Methi Keema", rating |-> 5],
  [user_id |-> 2, restaurant_name |-> "Hoppers", dish_name |-> "Bone Marrow Varuval", rating |-> 5],
  [user_id |-> 2, restaurant_name |-> "Bao", dish_name |-> "Classic Bao", rating |-> 4],
  [user_id |-> 2, restaurant_name |-> "Kiln", dish_name |-> "Grilled Tamworth Pork Jowl", rating |-> 5],
  [user_id |-> 3, restaurant_name |-> "Barrafina", dish_name |-> "Jamón Ibérico", rating |-> 5],
  [user_id |-> 3, restaurant_name |-> "Barrafina", dish_name |-> "Txangurro", rating |-> 4],
  [user_id |-> 3, restaurant_name |-> "Sabor", dish_name |-> "Iberico Presa", rating |-> 5],
  [user_id |-> 3, restaurant_name |-> "Bao", dish_name |-> "Classic Bao", rating |-> 4],
  [user_id |-> 3, restaurant_name |-> "Kiln", dish_name |-> "Clay Pot Glass Noodles", rating |-> 5],
  [user_id |-> 3, restaurant_name |-> "Sabor", dish_name |-> "Piri Piri Chicken", rating |-> 5],
  [user_id |-> 4, restaurant_name |-> "Hoppers", dish_name |-> "Bone Marrow Varuval", rating |-> 4],
  [user_id |-> 4, restaurant_name |-> "Gymkhana", dish_name |-> "Kid Goat Methi Keema", rating |-> 5],
  [user_id |-> 4, restaurant_name |-> "Gymkhana", dish_name |-> "Muntjac Biryani", rating |-> 5],
  [user_id |-> 4, restaurant_name |-> "Trishna", dish_name |-> "Dorset Brown Crab", rating |-> 5],
  [user_id |-> 4, restaurant_name |-> "Dishoom", dish_name |-> "House Black Daal", rating |-> 4],
  [user_id |-> 4, restaurant_name |-> "Trishna", dish_name |-> "Tandoori Lamb Chops", rating |-> 5]
>>

\* .slice(0, 3): the size of the neighbor pool
TopNeighbors == 3
\* if (review.rating < 4) continue
MinRating == 4

\* `const x = value`: the value is worked out once, whatever the number of
\* places of the body that use it
const(value, Body(_)) == CHOOSE result \in {Body(x) : x \in {value}} : TRUE

\* Array.prototype.map and Array.from: the array with the elements worked out
array(f) == SubSeq(f, 1, Len(f))

\* Array.prototype.filter
filter(arr, Test(_)) == SelectSeq(arr, Test)

\* Array.prototype.slice, for 0 <= start
slice(arr, start, end) == SubSeq(arr, start + 1, IF end < Len(arr) THEN end ELSE Len(arr))

\* Array.prototype.sort, which is stable: an element is moved ahead of
\* exactly the elements the comparator puts after it
sort(arr, Precedes(_, _)) ==
  const(arr, LAMBDA a :
    LET rank(i) == Cardinality({j \in 1..Len(a) :
                       Precedes(a[j], a[i]) \/ (j < i /\ ~Precedes(a[i], a[j]))})
    IN  array([p \in 1..Len(a) |-> a[CHOOSE i \in 1..Len(a) : rank(i) = p - 1]]))

\* [...new Set(arr)]: the distinct elements in order of first occurrence
distinct(arr) ==
  const(arr, LAMBDA a :
    const(filter([i \in 1..Len(a) |-> i], LAMBDA i : \A j \in 1..(i - 1) : a[j] # a[i]),
          LAMBDA firsts : array([k \in 1..Len(firsts) |-> a[firsts[k]]])))

\* .reduce((sum, r) => sum + r.rating, 0): a sum of integers, which is exact
RECURSIVE sumRatings(_)
sumRatings(revs) == IF revs = <<>> THEN 0 ELSE Head(revs).rating + sumRatings(Tail(revs))

\* a user's mean rating over the dishes rated at one restaurant
meanRating(userReviews, restaurantName) ==
  const(filter(userReviews, LAMBDA r : r.restaurant_name = restaurantName),
        LAMBDA here : FDiv(FromInt(sumRatings(here)), FromInt(Len(here))))

\* dotProduct, targetNorm and neighborNorm after the first i common restaurants
RECURSIVE cosineSums(_, _, _, _)
cosineSums(targetReviews, neighborReviews, commonRestaurants, i) ==
  IF i = 0 THEN [dotProduct |-> FZero, targetNorm |-> FZero, neighborNorm |-> FZero]
  ELSE const(cosineSums(targetReviews, neighborReviews, commonRestaurants, i - 1),
         LAMBDA before :
       const(meanRating(targetReviews, commonRestaurants[i]),
         LAMBDA targetRating :
       const(meanRating(neighborReviews, commonRestaurants[i]),
         LAMBDA neighborRating :
         [dotProduct   |-> FAdd(before.dotProduct, FMul(targetRating, neighborRating)),
          targetNorm   |-> FAdd(before.targetNorm, FMul(targetRating, targetRating)),
          neighborNorm |-> FAdd(before.neighborNorm, FMul(neighborRating, neighborRating))])))

\* const commonRestaurants = [...targetRestaurants].filter(r => neighborRestaurants.has(r))
commonRestaurantsOf(targetReviews, neighborReviews) ==
  const({neighborReviews[i].restaurant_name : i \in 1..Len(neighborReviews)},
    LAMBDA neighborRestaurants :
      filter(distinct([i \in 1..Len(targetReviews) |-> targetReviews[i].restaurant_name]),
             LAMBDA r : r \in neighborRestaurants))

\* the cosine taken without the test that both norms are non-zero
calculateUserSimilarity_Unguarded(targetUserId, neighborUserId, reviews) ==
  const(filter(reviews, LAMBDA r : r.user_id = targetUserId), LAMBDA targetReviews :
  const(filter(reviews, LAMBDA r : r.user_id = neighborUserId), LAMBDA neighborReviews :
  const(commonRestaurantsOf(targetReviews, neighborReviews), LAMBDA commonRestaurants :
    IF Len(commonRestaurants) = 0
    THEN [similarity |-> FZero, commonRestaurants |-> <<>>]
    ELSE const(cosineSums(targetReviews, neighborReviews, commonRestaurants,
                          Len(commonRestaurants)),
           LAMBDA sums :
             [similarity |->
                const(FMul(FSqrt(sums.targetNorm), FSqrt(sums.neighborNorm)),
                      LAMBDA norms : FDiv(sums.dotProduct, norms)),
              commonRestaurants |-> commonRestaurants]))))

calculateUserSimilarity(targetUserId, neighborUserId, reviews) ==
  const(filter(reviews, LAMBDA r : r.user_id = targetUserId), LAMBDA targetReviews :
  const(filter(reviews, LAMBDA r : r.user_id = neighborUserId), LAMBDA neighborReviews :
  const(commonRestaurantsOf(targetReviews, neighborReviews), LAMBDA commonRestaurants :
    IF Len(commonRestaurants) = 0
    THEN [similarity |-> FZero, commonRestaurants |-> <<>>]
    ELSE const(cosineSums(targetReviews, neighborReviews, commonRestaurants,
                          Len(commonRestaurants)),
           LAMBDA sums :
             [similarity |->
                IF sums.targetNorm.m # <<>> /\ sums.neighborNorm.m # <<>>
                THEN const(FMul(FSqrt(sums.targetNorm), FSqrt(sums.neighborNorm)),
                           LAMBDA norms : FDiv(sums.dotProduct, norms))
                ELSE FZero,
              commonRestaurants |-> commonRestaurants]))))

\* `${r.dish_name}@${r.restaurant_name}`; no name of the rating data holds an "@"
dishKey(review) == <<review.dish_name, "@", review.restaurant_name>>

otherUserIds(targetUserId) == filter(<<2, 3, 4>>, LAMBDA id : id # targetUserId)

\* const similarities: the neighbor pool
similaritiesOf(targetUserId, data) ==
  LET others == otherUserIds(targetUserId)
      scored == [i \in 1..Len(others) |->
                   [userId |-> others[i]] @@
                   calculateUserSimilarity(targetUserId, others[i], data)]
      kept   == filter(scored, LAMBDA s : FLess(FZero, s.similarity)
                                          /\ Len(s.commonRestaurants) > 0)
  IN  slice(sort(kept, LAMBDA a, b : FLess(b.similarity, a.similarity)), 0, TopNeighbors)

commonItemsOf(targetReviews, neighborReviews) ==
  LET pairs  == [k \in 1..(Len(targetReviews) * Len(neighborReviews)) |->
                   <<targetReviews[((k - 1) \div Len(neighborReviews)) + 1],
                     neighborReviews[((k - 1) % Len(neighborReviews)) + 1]>>]
      shared == filter(pairs, LAMBDA p : p[1].restaurant_name = p[2].restaurant_name)
  IN  [k \in 1..Len(shared) |->
         IF shared[k][1].dish_name = shared[k][2].dish_name
         THEN [type |-> "same_dish_same_restaurant",
               dish |-> shared[k][1].dish_name,
               restaurant |-> shared[k][1].restaurant_name,
               user_rating |-> shared[k][1].rating,
               neighbor_rating |-> shared[k][2].rating]
         ELSE [type |-> "different_dish_same_restaurant",
               user_dish |-> shared[k][1].dish_name,
               neighbor_dish |-> shared[k][2].dish_name,
               restaurant |-> shared[k][1].restaurant_name]]

neighborName(userId) ==
  IF userId \in DOMAIN USER_PROFILES THEN USER_PROFILES[userId].name
  ELSE "User " \o ToString(userId)

\* the (similar user, review) pairs in the order the two nested loops visit them
RECURSIVE visitsOf(_, _, _)
visitsOf(similarUsers, u, data) ==
  IF u = 0 THEN <<>>
  ELSE LET userReviews == filter(data, LAMBDA r : r.user_id = similarUsers[u].userId)
       IN  visitsOf(similarUsers, u - 1, data) \o
           [r \in 1..Len(userReviews) |->
              [similarUser |-> similarUsers[u], review |-> userReviews[r]]]

\* the inner loop without its first `continue`
skipped_OnlyLowRatings(review, targetReviews) ==
  review.rating < MinRating

\* the inner loop without its second `continue`
skipped_OnlyOwnDishes(review, targetReviews) ==
  dishKey(review) \in {dishKey(targetReviews[i]) : i \in 1..Len(targetReviews)}

\* the two `continue` tests of the inner loop
skipped(review, targetReviews) ==
  \/ dishKey(review) \in {dishKey(targetReviews[i]) : i \in 1..Len(targetReviews)}
  \/ review.rating < MinRating

supporterOf(v, targetReviews, data) ==
  [neighbor_id   |-> v.similarUser.userId,
   neighbor_name |-> neighborName(v.similarUser.userId),
   similarity    |-> v.similarUser.similarity,
   rating        |-> v.review.rating,
   common_items  |-> commonItemsOf(targetReviews,
                         filter(data, LAMBDA r : r.user_id = v.similarUser.userId))]

\* weightedSum of a candidate after the first n visits that reached its key
RECURSIVE weightedSumOf(_, _)
weightedSumOf(group, n) ==
  LET weightedRating == FMul(FromInt(group[n].review.rating), group[n].similarUser.similarity)
  IN  IF n = 1 THEN weightedRating ELSE FAdd(weightedSumOf(group, n - 1), weightedRating)

\* weightSum of a candidate after the first n visits that reached its key
RECURSIVE weightSumOf(_, _)
weightSumOf(group, n) ==
  IF n = 1 THEN group[n].similarUser.similarity
  ELSE FAdd(weightSumOf(group, n - 1), group[n].similarUser.similarity)

\* the values of the candidates Map, in insertion order: one entry per key,
\* made by the first visit that reaches the key and updated by the later ones
candidatesOf(targetUserId, similarUsers, data) ==
  LET targetReviews == filter(data, LAMBDA r : r.user_id = targetUserId)
      visits   == filter(visitsOf(similarUsers, Len(similarUsers), data),
                         LAMBDA v : ~skipped(v.review, targetReviews))
      firsts   == filter([i \in 1..Len(visits) |-> i],
                         LAMBDA i : \A j \in 1..(i - 1) :
                                      dishKey(visits[j].review) # dishKey(visits[i].review))
      group(k) == filter(visits,
                         LAMBDA v : dishKey(v.review) = dishKey(visits[firsts[k]].review))
  IN  [k \in 1..Len(firsts) |->
         [dish_name   |-> visits[firsts[k]].review.dish_name,
          restaurant  |-> visits[firsts[k]].review.restaurant_name,
          weightedSum |-> weightedSumOf(group(k), Len(group(k))),
          weightSum   |-> weightSumOf(group(k), Len(group(k))),
          supporters  |-> [s \in 1..Len(group(k)) |->
                             supporterOf(group(k)[s], targetReviews, data)],
          isNewRestaurant |->
              visits[firsts[k]].review.restaurant_name \notin
                  {targetReviews[i].restaurant_name : i \in 1..Len(targetReviews)}]]

\* the comparator without its is_new_restaurant test
rankedOf_ByRatingOnly(cands) ==
  sort([k \in 1..Len(cands) |->
          [dish_name |-> cands[k].dish_name,
           restaurant |-> cands[k].restaurant,
           predicted_rating |-> FDiv(cands[k].weightedSum, cands[k].weightSum),
           supporters |-> cands[k].supporters,
           is_new_restaurant |-> cands[k].isNewRestaurant]],
       LAMBDA a, b : FLess(b.predicted_rating, a.predicted_rating))

\* const recommendations, before .slice(0, topN)
rankedOf(cands) ==
  sort([k \in 1..Len(cands) |->
          [dish_name |-> cands[k].dish_name,
           restaurant |-> cands[k].restaurant,
           predicted_rating |-> FDiv(cands[k].weightedSum, cands[k].weightSum),
           supporters |-> cands[k].supporters,
           is_new_restaurant |-> cands[k].isNewRestaurant]],
       LAMBDA a, b : IF a.is_new_restaurant # b.is_new_restaurant
                     THEN a.is_new_restaurant
                     ELSE FLess(b.predicted_rating, a.predicted_rating))

getTypeScriptRecommendations(targetUserId, topN, data) ==
  slice(rankedOf(candidatesOf(targetUserId, similaritiesOf(targetUserId, data), data)),
        0, topN)

(* --------------------- calculateUserSimilarity runs -------------------- *)
\* the restaurants of the generated rating sets, in the order user 1 rated them
Visited == <<"Dishoom", "Hoppers", "Bao">>
\* the dishes a user rated at one restaurant
Dishes == <<"Chicken Ruby", "House Black Daal", "Pau Bhaji">>
\* what user 1 and user 2 may have rated at one restaurant: nothing, one
\* dish, or three dishes whose mean is no binary fraction
TargetRatings == {<<>>, <<0>>, <<1, 3, 4>>}
NeighborRatings == {<<>>, <<3>>, <<4>>}

RECURSIVE ratingsOf(_, _, _, _)
ratingsOf(userId, places, lists, k) ==
  IF k = 0 THEN <<>>
  ELSE ratingsOf(userId, places, lists, k - 1) \o
       [d \in 1..Len(lists[k]) |->
          [user_id |-> userId, restaurant_name |-> places[k],
           dish_name |-> Dishes[d], rating |-> lists[k][d]]]

\* user 2 rated the restaurants in the opposite order; user 3 rated nothing
RatingSets ==
  {ratingsOf(1, Visited, t, Len(Visited)) \o ratingsOf(2, Reverse(Visited), n, Len(Visited)) :
     t \in [1..Len(Visited) -> TargetRatings], n \in [1..Len(Visited) -> NeighborRatings]}

ComparedPairs == {<<1, 2>>, <<1, 3>>}

SimilarityInit ==
  /\ ScorerIdle
  /\ ratingData \in RatingSets
  /\ compared = null
  /\ targetUser = 0
  /\ listSize = 0
  /\ similarities = <<>>
  /\ candidates = <<>>
  /\ recommendations = null
  /\ FallbackIdle
  /\ GuardIdle

\* calculateUserSimilarity(a, b, reviews) and calculateUserSimilarity(b, a, reviews)
CompareUsers ==
  /\ compared = null
  /\ \E pair \in ComparedPairs :
       compared' = [a |-> pair[1], b |-> pair[2],
                    forward  |-> calculateUserSimilarity(pair[1], pair[2], ratingData),
                    backward |-> calculateUserSimilarity(pair[2], pair[1], ratingData)]
  /\ UNCHANGED <<ratingData, targetUser, listSize, similarities, candidates, recommendations>>
  /\ UNCHANGED <<scorerVars, fallbackVars, guardVars>>

SimilarityNext == CompareUsers

SimilaritySpec == SimilarityInit /\ [][SimilarityNext]_vars

(* ------------------- getTypeScriptRecommendations runs ----------------- *)
\* the user ids a call may name: the four of REVIEW_DATA and one without reviews
MaxUserId == 5
\* the largest topN a call may ask for
MaxTopN == 5

\* REVIEW_DATA, and REVIEW_DATA with one review edited: rated 3, or naming
\* the dish that users 1, 2 and 3 rated at Bao
Datasets ==
  {REVIEW_DATA} \cup
  {[REVIEW_DATA EXCEPT ![i].rating = 3] : i \in 1..Len(REVIEW_DATA)} \cup
  {[REVIEW_DATA EXCEPT ![i].dish_name = "Classic Bao"] : i \in 1..Len(REVIEW_DATA)}

EngineInit ==
  /\ ScorerIdle
  /\ ratingData \in Datasets
  /\ compared = null
  /\ targetUser = 0
  /\ listSize = 0
  /\ similarities = <<>>
  /\ candidates = <<>>
  /\ recommendations = null
  /\ FallbackIdle
  /\ GuardIdle

\* getTypeScriptRecommendations(targetUserId, topN)
Recommend ==
  /\ recommendations = null
  /\ \E t \in 1..MaxUserId :
       /\ targetUser' = t
       /\ similarities' = similaritiesOf(t, ratingData)
       /\ candidates' = rankedOf(candidatesOf(t, similarities', ratingData))
       /\ \E n \in 0..MaxTopN :
            /\ listSize' = n
            /\ recommendations' = [value |-> slice(candidates', 0, n)]
  /\ UNCHANGED <<ratingData, compared>>
  /\ UNCHANGED <<scorerVars, fallbackVars, guardVars>>

EngineNext == Recommend

EngineSpec == EngineInit /\ [][EngineNext]_vars

(* ----------------------- properties of the engine ---------------------- *)
Returned == recommendations # null

\* the target user's own ratings in the data of the run
OwnRatings == filter(ratingData, LAMBDA r : r.user_id = targetUser)

\* the ratings a user gave to one (dish, restaurant) pair
RatingsOfPair(userId, dish, place) ==
  {ratingData[i].rating : i \in {j \in 1..Len(ratingData) :
       /\ ratingData[j].user_id = userId
       /\ ratingData[j].dish_name = dish
       /\ ratingData[j].restaurant_name = place}}

\* C11: the engine never returns a (dish name, restaurant name) pair that the
\* target user has rated.
C11_NeverReturnsOwnPair ==
  Returned =>
    \A k \in 1..Len(recommendations.value) :
      RatingsOfPair(targetUser, recommendations.value[k].dish_name,
                    recommendations.value[k].restaurant) = {}

\* a selected neighbor rated one of the target's own pairs 4 or higher, and a
\* dish the target rated at one restaurant is returned at another
C11_Witness ==
  /\ Returned
  /\ \E s \in 1..Len(similarities), i \in 1..Len(OwnRatings) :
       \E x \in RatingsOfPair(similarities[s].userId, OwnRatings[i].dish_name,
                              OwnRatings[i].restaurant_name) : x >= MinRating
  /\ \E k \in 1..Len(recommendations.value), i \in 1..Len(OwnRatings) :
       /\ OwnRatings[i].dish_name = recommendations.value[k].dish_name
       /\ OwnRatings[i].restaurant_name # recommendations.value[k].restaurant

\* sum of similarity_i * rating_i over the first n supporters
RECURSIVE SupportWeighted(_, _)
SupportWeighted(supporters, n) ==
  IF n = 0 THEN FZero
  ELSE FAdd(SupportWeighted(supporters, n - 1),
            FMul(supporters[n].similarity, FromInt(supporters[n].rating)))

\* sum of similarity_i over the first n supporters
RECURSIVE SupportWeight(_, _)
SupportWeight(supporters, n) ==
  IF n = 0 THEN FZero
  ELSE FAdd(SupportWeight(supporters, n - 1), supporters[n].similarity)

SupportRatings(rec) == {rec.supporters[s].rating : s \in 1..Len(rec.supporters)}

\* C12: predicted_rating is sum(similarity_i * rating_i) / sum(similarity_i)
\* over the supporters listed, the denominator is above 0, and the value is
\* not below the lowest and not above the highest rating of those supporters.
C12_PredictedRatingIsBoundedMean ==
  Returned =>
    \A k \in 1..Len(recommendations.value) :
      LET rec == recommendations.value[k]
          den == SupportWeight(rec.supporters, Len(rec.supporters))
          num == SupportWeighted(rec.supporters, Len(rec.supporters))
      IN  /\ FLess(FZero, den)
          /\ rec.predicted_rating = FDiv(num, den)
          /\ \A x \in SupportRatings(rec) :
               \E lo, hi \in SupportRatings(rec) :
                 /\ lo <= x /\ x <= hi
                 /\ ~FLess(rec.predicted_rating, FromInt(lo))
                 /\ ~FLess(FromInt(hi), rec.predicted_rating)

PoolIds == {similarities[s].userId : s \in 1..Len(similarities)}

\* C13: the supporters of a returned recommendation are exactly the selected
\* neighbors who rated that (dish, restaurant) 4 or higher, each once, with
\* their own similarity and rating.
C13_SupportersAreTheSelectedRaters ==
  Returned =>
    \A k \in 1..Len(recommendations.value) :
      LET rec == recommendations.value[k]
          entriesOf(userId) == {s \in 1..Len(rec.supporters) :
                                  rec.supporters[s].neighbor_id = userId}
      IN  /\ \A s \in 1..Len(rec.supporters) :
               /\ rec.supporters[s].neighbor_id \in PoolIds
               /\ rec.supporters[s].rating >= MinRating
               /\ rec.supporters[s].rating \in
                    RatingsOfPair(rec.supporters[s].neighbor_id, rec.dish_name, rec.restaurant)
               /\ \E p \in 1..Len(similarities) :
                    /\ similarities[p].userId = rec.supporters[s].neighbor_id
                    /\ similarities[p].similarity = rec.supporters[s].similarity
          /\ \A p \in 1..Len(similarities) :
               Cardinality(entriesOf(similarities[p].userId)) =
                 IF \E x \in RatingsOfPair(similarities[p].userId, rec.dish_name,
                                           rec.restaurant) : x >= MinRating
                 THEN 1 ELSE 0

\* a selected neighbor rated a returned pair below 4 and is left out
C13_Witness ==
  /\ Returned
  /\ \E k \in 1..Len(recommendations.value), p \in 1..Len(similarities) :
       /\ \E x \in RatingsOfPair(similarities[p].userId,
                                 recommendations.value[k].dish_name,
                                 recommendations.value[k].restaurant) : x < MinRating
       /\ \A s \in 1..Len(recommendations.value[k].supporters) :
            recommendations.value[k].supporters[s].neighbor_id # similarities[p].userId

\* the users of the rating data other than the target
OtherKnownUsers == {ratingData[i].user_id : i \in 1..Len(ratingData)} \ {targetUser}

\* C14: the neighbor pool is made of the other known users with similarity > 0
\* and a common restaurant, sorted by similarity descending, cut after 3.
C14_PoolFromEveryOtherKnownUser ==
  Returned =>
    LET scoreOf(u) == calculateUserSimilarity(targetUser, u, ratingData)
        eligible   == {u \in OtherKnownUsers :
                         /\ FLess(FZero, scoreOf(u).similarity)
                         /\ Len(scoreOf(u).commonRestaurants) > 0}
    IN  /\ PoolIds \subseteq eligible
        /\ Cardinality(PoolIds) = Len(similarities)
        /\ Len(similarities) = IF Cardinality(eligible) < TopNeighbors
                               THEN Cardinality(eligible) ELSE TopNeighbors
        /\ \A p \in 1..Len(similarities) :
             similarities[p].similarity = scoreOf(similarities[p].userId).similarity
        /\ \A p, q \in 1..Len(similarities) :
             p < q => ~FLess(similarities[p].similarity, similarities[q].similarity)
        /\ \A u \in eligible \ PoolIds, p \in 1..Len(similarities) :
             ~FLess(similarities[p].similarity, scoreOf(u).similarity)

\* a candidate that the ordering puts strictly ahead of another
Ahead(x, y) ==
  \/ x.is_new_restaurant /\ ~y.is_new_restaurant
  \/ /\ x.is_new_restaurant = y.is_new_restaurant
     /\ FLess(y.predicted_rating, x.predicted_rating)

\* C15: the returned list holds the first topN candidates of the order "new
\* restaurants first, then predicted_rating descending"; its length is at
\* most topN.
C15_NewRestaurantsFirstThenRating ==
  Returned =>
    LET R == recommendations.value
    IN  /\ Len(R) <= listSize
        /\ Len(R) = IF Len(candidates) < listSize THEN Len(candidates) ELSE listSize
        /\ Range(R) \subseteq Range(candidates)
        /\ Cardinality(Range(R)) = Len(R)
        /\ \A i, j \in 1..Len(R) : i < j => ~Ahead(R[j], R[i])
        /\ \A c \in Range(candidates) \ Range(R), i \in 1..Len(R) : ~Ahead(c, R[i])

\* a candidate is cut off, and a new restaurant's dish is returned ahead of
\* a better rated dish of a restaurant the target knows
C15_Witness ==
  /\ Returned
  /\ Len(candidates) > listSize
  /\ \E i, j \in 1..Len(recommendations.value) :
       /\ i < j
       /\ recommendations.value[i].is_new_restaurant
       /\ ~recommendations.value[j].is_new_restaurant
       /\ FLess(recommendations.value[i].predicted_rating,
                recommendations.value[j].predicted_rating)

(* ------------------ properties of calculateUserSimilarity -------------- *)
Compared == compared # null

\* the restaurants both users of the pair rated
Shared ==
  {ratingData[i].restaurant_name : i \in {j \in 1..Len(ratingData) :
       ratingData[j].user_id = compared.a}} \cap
  {ratingData[i].restaurant_name : i \in {j \in 1..Len(ratingData) :
       ratingData[j].user_id = compared.b}}

\* every mean rating of the user over the shared restaurants is 0
ZeroVector(userId) ==
  \A i \in 1..Len(ratingData) :
    (ratingData[i].user_id = userId /\ ratingData[i].restaurant_name \in Shared)
      => ratingData[i].rating = 0

\* C16: similarity(a, b) equals similarity(b, a), and the two calls report the
\* same set of common restaurants.
C16_SimilarityIsSymmetric ==
  Compared =>
    /\ compared.forward.similarity = compared.backward.similarity
    /\ Range(compared.forward.commonRestaurants) = Range(compared.backward.commonRestaurants)

\* C17: without a shared restaurant the result is similarity 0 with an empty
\* list; with a zero vector on either side it is similarity 0; it is never NaN.
C17_NoOverlapOrZeroNormGivesZero ==
  Compared =>
    \A result \in {compared.forward, compared.backward} :
      /\ result.similarity # FNaN
      /\ Shared = {} => (result.similarity = FZero /\ result.commonRestaurants = <<>>)
      /\ (ZeroVector(compared.a) \/ ZeroVector(compared.b)) => result.similarity = FZero

\* the two users share a restaurant, where one of them gave only zeros
C17_Witness ==
  /\ Compared
  /\ Shared # {}
  /\ ZeroVector(compared.a)
  /\ ~ZeroVector(compared.b)
  /\ compared.forward.similarity = FZero
  /\ Len(compared.forward.commonRestaurants) > 0

\* C18: with every rating in 1..5 the similarity is at least 0 and at most 1.
C18_SimilarityWithinUnitInterval ==
  (Compared /\ \A i \in 1..Len(ratingData) : ratingData[i].rating \in 1..5) =>
    \A result \in {compared.forward, compared.backward} :
      /\ result.similarity # FNaN
      /\ ~FLess(FromInt(1), result.similarity)

(* --------------------------- executePythonScript ----------------------- *)
\* JSON.parse results are tagged by their JavaScript type
jsonNull == [kind |-> "null"]
jsonFalse == [kind |-> "boolean", value |-> FALSE]
jsonObject == [kind |-> "object"]
jsonArray(elems) == [kind |-> "array", elems |-> elems]

\* ToBoolean of a parsed value: arrays and objects are truthy
truthy(v) == v.kind \notin {"null"} /\ (v.kind = "boolean" => v.value)

\* `v.length > 0`: only arrays have a length here, undefined > 0 is false
nonEmpty(v) == v.kind = "array" /\ Len(v.elems) > 0

\* what the child process did: spawn threw, the 'error' event, or the 'close'
\* event with an exit code and the collected stdout
executePythonScript(run) ==
  IF run.event = "throw" THEN [success |-> FALSE, error |-> "Unknown error"]
  ELSE IF run.event = "error"
  THEN [success |-> FALSE, error |-> "Failed to execute Python script"]
  ELSE IF run.code # 0
  THEN [success |-> FALSE, error |-> "Python script exited with code"]
  ELSE IF run.stdout.parses THEN [success |-> TRUE, data |-> run.stdout.json]
  ELSE [success |-> FALSE, error |-> "Failed to parse JSON"]

\* one recommendation as get_recommendations.py prints it
PythonDish ==
  [dish_name |-> "Lamb Chops", restaurant |-> "Gymkhana",
   predicted_rating |-> FromInt(5), supporters |-> <<>>,
   is_new_restaurant |-> TRUE]

\* what get_recommendations.py may print: a list of recommendations, or a
\* value that says the engine is unavailable
PythonData ==
  {jsonArray(<<>>), jsonArray(<<PythonDish>>), jsonArray(<<PythonDish, PythonDish>>),
   jsonNull, jsonFalse, jsonObject}

Stdouts == {[parses |-> FALSE]} \cup {[parses |-> TRUE, json |-> v] : v \in PythonData}

ProcessRuns ==
  {[event |-> "throw"], [event |-> "error"]} \cup
  {[event |-> "close", code |-> c, stdout |-> s] : c \in {0, 1}, s \in Stdouts}

\* getPythonRecommendations once the environment has answered
getPythonRecommendations(env) ==
  IF ~env.node THEN jsonNull
  ELSE IF env.importThrows THEN jsonNull
  ELSE LET result == executePythonScript(env.run)
       IN  IF result.success /\ truthy(result.data) THEN result.data ELSE jsonNull

\* the fallback without the length test
getFindMyFoodRecommendations_NoLengthTest(results, targetUserId, topN, data) ==
  IF truthy(results) /\ results.kind = "array"
  THEN results.elems
  ELSE getTypeScriptRecommendations(targetUserId, topN, data)

getFindMyFoodRecommendations(results, targetUserId, topN, data) ==
  IF truthy(results) /\ nonEmpty(results)
  THEN results.elems
  ELSE getTypeScriptRecommendations(targetUserId, topN, data)

FallbackInit ==
  /\ ScorerIdle
  /\ GuardIdle
  /\ ratingData = REVIEW_DATA
  /\ compared = null
  /\ targetUser \in 1..MaxUserId
  /\ listSize \in 0..MaxTopN
  /\ similarities = <<>>
  /\ candidates = <<>>
  /\ recommendations = null
  /\ FallbackIdle

\* getFindMyFoodRecommendations(targetUser, listSize) in an environment env
FindMyFood(env) ==
  /\ findMyFood = null
  /\ alternate' = env
  /\ pythonResults' = getPythonRecommendations(env)
  /\ findMyFood' = [status |-> "fulfilled",
                    value |-> getFindMyFoodRecommendations(pythonResults', targetUser,
                                                           listSize, ratingData)]
  /\ UNCHANGED <<python, stdoutData, stderrData, executed>>
  /\ UNCHANGED <<scorerVars, engineVars, guardVars>>

\* typeof process === 'undefined', or no process.versions.node
OutsideNode == FindMyFood([node |-> FALSE])

\* await import('./pythonExecutor') rejects
ImportFails == FindMyFood([node |-> TRUE, importThrows |-> TRUE])

\* executePythonScript settles
ScriptRuns ==
  \E run \in ProcessRuns :
    FindMyFood([node |-> TRUE, importThrows |-> FALSE, run |-> run])

FallbackNext == OutsideNode \/ ImportFails \/ ScriptRuns

FallbackSpec == FallbackInit /\ [][FallbackNext]_vars

(* ---------------------- properties of the fallback --------------------- *)
Answered == findMyFood # null

\* C19: getFindMyFoodRecommendations settles fulfilled in every outcome of
\* the alternate path; it returns the alternate engine's list only when that
\* path produced a non-empty list, and the in-process engine's result for the
\* same (targetUserId, topN) in every other outcome.
C19_FallsThroughUnconditionally ==
  Answered =>
    /\ findMyFood.status = "fulfilled"
    /\ IF /\ alternate.node
          /\ ~alternate.importThrows
          /\ alternate.run.event = "close"
          /\ alternate.run.code = 0
          /\ alternate.run.stdout.parses
          /\ alternate.run.stdout.json.kind = "array"
          /\ alternate.run.stdout.json.elems # <<>>
       THEN findMyFood.value = alternate.run.stdout.json.elems
       ELSE findMyFood.value = getTypeScriptRecommendations(targetUser, listSize, ratingData)

\* the script exited with code 0 and printed an empty list, and the caller
\* got the in-process engine's non-empty list
C19_Witness ==
  /\ Answered
  /\ alternate.node
  /\ ~alternate.importThrows
  /\ alternate.run.event = "close"
  /\ alternate.run.code = 0
  /\ alternate.run.stdout.parses
  /\ alternate.run.stdout.json = jsonArray(<<>>)
  /\ findMyFood.value # <<>>
  /\ findMyFood.value = getTypeScriptRecommendations(targetUser, listSize, ratingData)

(* -------------------- favoritesService, dashboardService --------------- *)
\* const defaultRestaurants
defaultRestaurants == <<"Dishoom", "Vapiano">>

\* the calls and the loads a run may make
MaxCalls == 4
MaxLoads == 2

\* the foodPreferences a call may pass
PreferenceLists == {<<>>, <<"Indian">>}

\* what one generateRestaurantSuggestions request may resolve to: nothing
\* (the request failed), or a restaurant with an alignment score
SuggestionLists ==
  {<<>>, <<[name |-> "Hoppers", alignmentScore |-> 75]>>,
         <<[name |-> "Bao", alignmentScore |-> 90]>>}

\* a promise is fulfilled from the start, or it is the promise of a load
resolved(value) == [value |-> value]
promiseOf(id) == [load |-> id]

\* an async body: which await it is suspended at (0 when it has returned)
finished(load) == load.awaiting = 0

\* loadDefaultFavorites without the test of loadingPromise
loadDefaultFavorites_NoPendingTest(cached, inFlight, loads) ==
  IF cached # null
  THEN [loadingPromise |-> inFlight, loads |-> loads, promise |-> resolved(cached)]
  ELSE [loadingPromise |-> promiseOf(Len(loads) + 1),
        loads   |-> Append(loads, [awaiting |-> 1, favorites |-> <<>>, errors |-> <<>>]),
        promise |-> promiseOf(Len(loads) + 1)]

\* loadDefaultFavorites(): the cache, then the in-flight promise, then a new
\* load, which runs up to its first await of generateRestaurantData
loadDefaultFavorites(cached, inFlight, loads) ==
  IF cached # null
  THEN [loadingPromise |-> inFlight, loads |-> loads, promise |-> resolved(cached)]
  ELSE IF inFlight # null
  THEN [loadingPromise |-> inFlight, loads |-> loads, promise |-> inFlight]
  ELSE [loadingPromise |-> promiseOf(Len(loads) + 1),
        loads   |-> Append(loads, [awaiting |-> 1, favorites |-> <<>>, errors |-> <<>>]),
        promise |-> promiseOf(Len(loads) + 1)]

\* a component calls loadDefaultFavorites()
CallLoadDefaultFavorites ==
  /\ Len(calls) < MaxCalls
  /\ LET r == loadDefaultFavorites(cachedFavorites, loadingPromise, favoritesLoads)
     IN  /\ Len(r.loads) <= MaxLoads
         /\ loadingPromise' = r.loadingPromise
         /\ favoritesLoads' = r.loads
         /\ calls' = Append(calls, [resource |-> "favorites", promise |-> r.promise])
  /\ UNCHANGED <<cachedFavorites, cachedRecommendations, loadingRecommendationsPromise,
                 recommendationLoads>>
  /\ UNCHANGED <<scorerVars, engineVars, fallbackVars>>

\* the load goes on after generateRestaurantData settled: the next
\* restaurant, or cachedFavorites = favorites and the finally block
favoritesLoadContinues(id, favorites, errors) ==
  LET k == favoritesLoads[id].awaiting
  IN  IF k < Len(defaultRestaurants)
      THEN /\ favoritesLoads' = [favoritesLoads EXCEPT
                                   ![id] = [awaiting |-> k + 1, favorites |-> favorites,
                                            errors |-> errors]]
           /\ UNCHANGED <<cachedFavorites, loadingPromise>>
      ELSE /\ favoritesLoads' = [favoritesLoads EXCEPT
                                   ![id] = [awaiting |-> 0, favorites |-> favorites,
                                            errors |-> errors]]
           /\ cachedFavorites' = [list |-> favorites]
           /\ loadingPromise' = null

\* generateRestaurantData resolves: favorites.push
RestaurantDataResolves ==
  /\ \E id \in 1..Len(favoritesLoads) :
       /\ ~finished(favoritesLoads[id])
       /\ favoritesLoadContinues(id,
             Append(favoritesLoads[id].favorites,
                    [name |-> defaultRestaurants[favoritesLoads[id].awaiting]]),
             favoritesLoads[id].errors)
  /\ UNCHANGED <<cachedRecommendations, loadingRecommendationsPromise, recommendationLoads,
                 calls>>
  /\ UNCHANGED <<scorerVars, engineVars, fallbackVars>>

\* generateRestaurantData rejects: the inner catch logs the name
RestaurantDataRejects ==
  /\ \E id \in 1..Len(favoritesLoads) :
       /\ ~finished(favoritesLoads[id])
       /\ favoritesLoadContinues(id, favoritesLoads[id].favorites,
             Append(favoritesLoads[id].errors,
                    defaultRestaurants[favoritesLoads[id].awaiting]))
  /\ UNCHANGED <<cachedRecommendations, loadingRecommendationsPromise, recommendationLoads,
                 calls>>
  /\ UNCHANGED <<scorerVars, engineVars, fallbackVars>>

\* a component calls generateDashboardRecommendations(foodPreferences); a new
\* load runs up to its await of loadDefaultFavorites()
CallGenerateDashboardRecommendations ==
  /\ Len(calls) < MaxCalls
  /\ \E foodPreferences \in PreferenceLists :
       IF cachedRecommendations # null
       THEN /\ calls' = Append(calls, [resource |-> "dashboard", foodPreferences |-> foodPreferences,
                                       promise |-> resolved(cachedRecommendations)])
            /\ UNCHANGED <<loadingPromise, favoritesLoads, loadingRecommendationsPromise,
                           recommendationLoads>>
       ELSE IF loadingRecommendationsPromise # null
       THEN /\ calls' = Append(calls, [resource |-> "dashboard", foodPreferences |-> foodPreferences,
                                       promise |-> loadingRecommendationsPromise])
            /\ UNCHANGED <<loadingPromise, favoritesLoads, loadingRecommendationsPromise,
                           recommendationLoads>>
       ELSE LET r  == loadDefaultFavorites(cachedFavorites, loadingPromise, favoritesLoads)
                id == Len(recommendationLoads) + 1
            IN  /\ Len(r.loads) <= MaxLoads
                /\ id <= MaxLoads
                /\ loadingPromise' = r.loadingPromise
                /\ favoritesLoads' = r.loads
                /\ recommendationLoads' =
                     Append(recommendationLoads,
                            [awaiting |-> 1, favorites |-> r.promise,
                             foodPreferences |-> foodPreferences,
                             pending |-> {}, suggestions |-> <<>>])
                /\ loadingRecommendationsPromise' = promiseOf(id)
                /\ calls' = Append(calls, [resource |-> "dashboard", foodPreferences |-> foodPreferences,
                                           promise |-> promiseOf(id)])
  /\ UNCHANGED <<cachedFavorites, cachedRecommendations>>
  /\ UNCHANGED <<scorerVars, engineVars, fallbackVars>>

\* the promise is fulfilled
settled(promise) ==
  IF "value" \in DOMAIN promise THEN TRUE ELSE finished(favoritesLoads[promise.load])

\* await loadDefaultFavorites() returns: the three requests of
\* Promise.allSettled start, the third only with food preferences
FavoritesArrive ==
  /\ \E id \in 1..Len(recommendationLoads) :
       LET load == recommendationLoads[id]
       IN  /\ load.awaiting = 1
           /\ settled(load.favorites)
           /\ recommendationLoads' =
                [recommendationLoads EXCEPT
                   ![id] = [load EXCEPT
                      !.awaiting = 2,
                      !.pending = IF Len(load.foodPreferences) > 0 THEN {1, 2, 3} ELSE {1, 2},
                      !.suggestions = <<<<>>, <<>>, <<>>>>]]
  /\ UNCHANGED <<cachedFavorites, loadingPromise, favoritesLoads, cachedRecommendations,
                 loadingRecommendationsPromise, calls>>
  /\ UNCHANGED <<scorerVars, engineVars, fallbackVars>>

\* Promise.all in place of Promise.allSettled: one empty category empties all
recommendationsOf_AllOrNothing(suggestions) ==
  IF suggestions[1] = <<>> \/ suggestions[2] = <<>>
  THEN [peopleWhoLikedYourFavorites |-> <<>>, trendyFoods |-> <<>>,
        recommendedForYou |-> <<>>]
  ELSE [peopleWhoLikedYourFavorites |-> suggestions[1],
        trendyFoods |-> suggestions[2],
        recommendedForYou |-> suggestions[3],
        topMatch |-> suggestions[1][1]]

\* const recommendations, with topMatch when a category has an entry
recommendationsOf(suggestions) ==
  LET allSuggestions == suggestions[1] \o suggestions[2] \o suggestions[3]
      sorted == sort(allSuggestions, LAMBDA a, b : a.alignmentScore > b.alignmentScore)
      lists  == [peopleWhoLikedYourFavorites |-> suggestions[1],
                 trendyFoods |-> suggestions[2],
                 recommendedForYou |-> suggestions[3]]
  IN  IF Len(allSuggestions) > 0
      THEN [peopleWhoLikedYourFavorites |-> suggestions[1],
            trendyFoods |-> suggestions[2],
            recommendedForYou |-> suggestions[3],
            topMatch |-> sorted[1]]
      ELSE lists

\* one generateRestaurantSuggestions request resolves; after the last one
\* the load caches its recommendations and runs the finally block
SuggestionsArrive ==
  /\ \E id \in 1..Len(recommendationLoads) :
       LET load == recommendationLoads[id]
       IN  /\ load.awaiting = 2
           /\ \E k \in load.pending, list \in SuggestionLists :
                LET suggestions == [load.suggestions EXCEPT ![k] = list]
                IN  IF load.pending = {k}
                    THEN /\ recommendationLoads' =
                              [recommendationLoads EXCEPT
                                 ![id] = [load EXCEPT !.awaiting = 0, !.pending = {},
                                                      !.suggestions = suggestions]]
                         /\ cachedRecommendations' = recommendationsOf(suggestions)
                         /\ loadingRecommendationsPromise' = null
                    ELSE /\ recommendationLoads' =
                              [recommendationLoads EXCEPT
                                 ![id] = [load EXCEPT !.pending = load.pending \ {k},
                                                      !.suggestions = suggestions]]
                         /\ UNCHANGED <<cachedRecommendations, loadingRecommendationsPromise>>
  /\ UNCHANGED <<cachedFavorites, loadingPromise, favoritesLoads, calls>>
  /\ UNCHANGED <<scorerVars, engineVars, fallbackVars>>

GuardInit ==
  /\ ScorerIdle
  /\ EngineIdle
  /\ FallbackIdle
  /\ GuardIdle

GuardNext ==
  \/ CallLoadDefaultFavorites
  \/ RestaurantDataResolves
  \/ RestaurantDataRejects
  \/ CallGenerateDashboardRecommendations
  \/ FavoritesArrive
  \/ SuggestionsArrive

GuardSpec == GuardInit /\ [][GuardNext]_vars

(* ------------------------ properties of the guards ---------------------- *)
\* the loads that have not returned
Outstanding(loads) == {id \in 1..Len(loads) : ~finished(loads[id])}

\* the loads whose promise was handed to a caller of the resource
Followed(resource) ==
  {calls[c].promise.load : c \in {d \in 1..Len(calls) :
       calls[d].resource = resource /\ "load" \in DOMAIN calls[d].promise}}

\* C20: for loadDefaultFavorites and for generateDashboardRecommendations, at
\* most one load is outstanding at any time, every call made while it is
\* pending got the promise of that one load, and once a result is cached no
\* load is outstanding or started again.
C20_InFlightGuard ==
  /\ Cardinality(Outstanding(favoritesLoads)) <= 1
  /\ Cardinality(Outstanding(recommendationLoads)) <= 1
  /\ loadingPromise # null => Outstanding(favoritesLoads) = {loadingPromise.load}
  /\ loadingRecommendationsPromise # null =>
       Outstanding(recommendationLoads) = {loadingRecommendationsPromise.load}
  /\ Cardinality(Followed("favorites")) <= 1
  /\ Cardinality(Followed("dashboard")) <= 1
  /\ cachedFavorites # null =>
       Outstanding(favoritesLoads) = {} /\ Len(favoritesLoads) <= 1
  /\ cachedRecommendations # null =>
       Outstanding(recommendationLoads) = {} /\ Len(recommendationLoads) <= 1

\* two calls of generateDashboardRecommendations share the promise of the one
\* load, a call of loadDefaultFavorites got the promise of the load that the
\* dashboard load had started, and after both results were cached a fourth
\* call got the cached recommendations
C20_Witness ==
  /\ Len(calls) = 4
  /\ calls[1].resource = "dashboard" /\ calls[1].promise = promiseOf(1)
  /\ calls[2].resource = "dashboard" /\ calls[2].promise = promiseOf(1)
  /\ calls[3] = [resource |-> "favorites", promise |-> promiseOf(1)]
  /\ cachedFavorites # null
  /\ cachedRecommendations # null
  /\ calls[4].resource = "dashboard" /\ calls[4].promise = resolved(cachedRecommendations)
  /\ Len(favoritesLoads) = 1
  /\ Len(recommendationLoads) = 1

(* ------------------- failures behind the guards ------------------------ *)
\* the promises that calls of a resource got fulfilled from the cache
ServedFromCache(resource) ==
  {calls[c].promise.value : c \in {d \in 1..Len(calls) :
       calls[d].resource = resource /\ "value" \in DOMAIN calls[d].promise}}

\* every request of the load failed
FailedFavorites(load) == finished(load) /\ load.favorites = <<>>
FailedRecommendations(load) ==
  finished(load) /\ \A k \in 1..3 : load.suggestions[k] = <<>>

\* C21: after a load whose every request failed, the in-flight marker is
\* cleared and a later call starts a new load: no call is answered with the
\* failed outcome from the cache.
C21_FailedLoadCanBeRetried ==
  /\ \A id \in 1..Len(favoritesLoads) :
       FailedFavorites(favoritesLoads[id]) => loadingPromise # promiseOf(id)
  /\ \A id \in 1..Len(recommendationLoads) :
       FailedRecommendations(recommendationLoads[id]) =>
         loadingRecommendationsPromise # promiseOf(id)
  /\ \A value \in ServedFromCache("favorites") : value.list # <<>>
  /\ \A value \in ServedFromCache("dashboard") :
       ~(/\ value.peopleWhoLikedYourFavorites = <<>>
         /\ value.trendyFoods = <<>>
         /\ value.recommendedForYou = <<>>)

\* the entries of the three categories
AllSuggestions(recs) ==
  Range(recs.peopleWhoLikedYourFavorites) \cup Range(recs.trendyFoods)
    \cup Range(recs.recommendedForYou)

\* the default restaurants whose request did not fail, in their order
LoadedFavorites(load) ==
  SelectSeq([k \in 1..Len(defaultRestaurants) |-> [name |-> defaultRestaurants[k]]],
            LAMBDA f : f.name \notin Range(load.errors))

\* C22: each category of the cached recommendations holds the result of its
\* own request, an empty one where that request failed; topMatch is an entry
\* of highest alignmentScore and is absent only if every category is empty;
\* a finished favorites load returns every default restaurant whose own
\* request did not fail.
C22_PartialFailureIsolation ==
  /\ cachedRecommendations # null =>
       LET load == recommendationLoads[Len(recommendationLoads)]
           recs == cachedRecommendations
       IN  /\ recs.peopleWhoLikedYourFavorites = load.suggestions[1]
           /\ recs.trendyFoods = load.suggestions[2]
           /\ recs.recommendedForYou = load.suggestions[3]
           /\ ("topMatch" \in DOMAIN recs) = (AllSuggestions(recs) # {})
           /\ "topMatch" \in DOMAIN recs =>
                /\ recs.topMatch \in AllSuggestions(recs)
                /\ \A entry \in AllSuggestions(recs) :
                     entry.alignmentScore <= recs.topMatch.alignmentScore
  /\ \A id \in 1..Len(favoritesLoads) :
       finished(favoritesLoads[id]) =>
         /\ favoritesLoads[id].favorites = LoadedFavorites(favoritesLoads[id])
         /\ cachedFavorites = [list |-> LoadedFavorites(favoritesLoads[id])]

\* the request for Dishoom failed and Vapiano is returned; the request of the
\* first category failed and the second category's entry is the top match
C22_Witness ==
  /\ cachedFavorites = [list |-> <<[name |-> "Vapiano"]>>]
  /\ favoritesLoads[1].errors = <<"Dishoom">>
  /\ cachedRecommendations # null
  /\ cachedRecommendations.peopleWhoLikedYourFavorites = <<>>
  /\ cachedRecommendations.trendyFoods # <<>>
  /\ cachedRecommendations.topMatch = cachedRecommendations.trendyFoods[1]

\* the calls of generateDashboardRecommendations
DashboardCalls == {c \in 1..Len(calls) : calls[c].resource = "dashboard"}

\* the load whose result a call of generateDashboardRecommendations gets:
\* the one it was handed the promise of, or the one that filled the cache
LoadBehind(c) ==
  recommendationLoads[IF "load" \in DOMAIN calls[c].promise
                      THEN calls[c].promise.load
                      ELSE Len(recommendationLoads)]

\* C29: the result of a generateDashboardRecommendations(foodPreferences) call
\* was generated from the list of that call: recommendedForYou is empty when
\* the list is empty, and otherwise comes from a request built from it.
C29_ResultFromOwnPreferences ==
  \A c \in DashboardCalls :
    finished(LoadBehind(c)) =>
      /\ calls[c].foodPreferences = <<>> =>
           recommendationsOf(LoadBehind(c).suggestions).recommendedForYou = <<>>
      /\ calls[c].foodPreferences # <<>> =>
           LoadBehind(c).foodPreferences = calls[c].foodPreferences

(* ------------------ clearFavoritesCache and addFavorite ---------------- *)
\* the names a user may add
AddedNames == {"Hoppers"}

\* the promise of a call that has not returned
pending == [pending |-> TRUE]

\* clearFavoritesCache()
ClearFavoritesCache ==
  /\ Len(calls) < MaxCalls
  /\ cachedFavorites' = null
  /\ loadingPromise' = null
  /\ calls' = Append(calls, [resource |-> "clearFavoritesCache"])
  /\ UNCHANGED <<favoritesLoads, cachedRecommendations, loadingRecommendationsPromise,
                 recommendationLoads>>
  /\ UNCHANGED <<scorerVars, engineVars, fallbackVars>>

\* addFavorite(name) runs up to its await of generateRestaurantData
CallAddFavorite ==
  /\ Len(calls) < MaxCalls
  /\ \E name \in AddedNames :
       calls' = Append(calls, [resource |-> "addFavorite", name |-> name,
                               promise |-> pending])
  /\ UNCHANGED <<cachedFavorites, loadingPromise, favoritesLoads, cachedRecommendations,
                 loadingRecommendationsPromise, recommendationLoads>>
  /\ UNCHANGED <<scorerVars, engineVars, fallbackVars>>

\* generateRestaurantData resolves: the favorite is added to a cache that is
\* not null, and returned; `returnedAfter` counts the calls made before that
AddFavoriteResolves ==
  /\ \E c \in 1..Len(calls) :
       /\ calls[c].resource = "addFavorite"
       /\ calls[c].promise = pending
       /\ cachedFavorites' =
            IF cachedFavorites # null
            THEN [list |-> Append(cachedFavorites.list, [name |-> calls[c].name])]
            ELSE cachedFavorites
       /\ calls' = [calls EXCEPT ![c] = [resource |-> "addFavorite", name |-> calls[c].name,
                                         promise |-> resolved([name |-> calls[c].name]),
                                         returnedAfter |-> Len(calls)]]
  /\ UNCHANGED <<loadingPromise, favoritesLoads, cachedRecommendations,
                 loadingRecommendationsPromise, recommendationLoads>>
  /\ UNCHANGED <<scorerVars, engineVars, fallbackVars>>

\* generateRestaurantData rejects: the catch returns null
AddFavoriteRejects ==
  /\ \E c \in 1..Len(calls) :
       /\ calls[c].resource = "addFavorite"
       /\ calls[c].promise = pending
       /\ calls' = [calls EXCEPT ![c] = [resource |-> "addFavorite", name |-> calls[c].name,
                                         promise |-> resolved(null),
                                         returnedAfter |-> Len(calls)]]
  /\ UNCHANGED <<cachedFavorites, loadingPromise, favoritesLoads, cachedRecommendations,
                 loadingRecommendationsPromise, recommendationLoads>>
  /\ UNCHANGED <<scorerVars, engineVars, fallbackVars>>

FavoritesInit ==
  /\ ScorerIdle
  /\ EngineIdle
  /\ FallbackIdle
  /\ GuardIdle

FavoritesNext ==
  \/ CallLoadDefaultFavorites
  \/ RestaurantDataResolves
  \/ RestaurantDataRejects
  \/ ClearFavoritesCache
  \/ CallAddFavorite
  \/ AddFavoriteResolves
  \/ AddFavoriteRejects

FavoritesSpec == FavoritesInit /\ [][FavoritesNext]_vars

(* -------------------- properties of the favorites cache ---------------- *)
\* the calls of clearFavoritesCache, by their place among the calls
Clears == {c \in 1..Len(calls) : calls[c].resource = "clearFavoritesCache"}

\* the call of loadDefaultFavorites that started a load
StartOf(id) ==
  CHOOSE c \in 1..Len(calls) :
    /\ calls[c].resource = "favorites"
    /\ calls[c].promise = promiseOf(id)
    /\ \A d \in 1..(c - 1) :
         ~(calls[d].resource = "favorites" /\ calls[d].promise = promiseOf(id))

\* the loads started after every clearFavoritesCache made so far
StartedSinceClear ==
  {id \in 1..Len(favoritesLoads) : \A c \in Clears : c < StartOf(id)}

\* C27: (a) a load that was in flight when clearFavoritesCache ran does not
\* fill the cache afterwards: a cache that is not null comes from a load
\* started after the clear; (b) a load started after the clear keeps the
\* in-flight marker until it returns; (c) at most one load is outstanding.
C27_ClearIsEffective ==
  /\ cachedFavorites # null =>
       \E id \in StartedSinceClear : finished(favoritesLoads[id])
  /\ \A id \in StartedSinceClear :
       ~finished(favoritesLoads[id]) => loadingPromise = promiseOf(id)
  /\ Cardinality(Outstanding(favoritesLoads)) <= 1

\* the list a call of loadDefaultFavorites got, once it has it
Got(c) ==
  IF "value" \in DOMAIN calls[c].promise THEN calls[c].promise.value
  ELSE IF finished(favoritesLoads[calls[c].promise.load])
       THEN [list |-> favoritesLoads[calls[c].promise.load].favorites]
       ELSE null

\* the calls of addFavorite that have returned the favorite, or null
Added == {c \in 1..Len(calls) :
            /\ calls[c].resource = "addFavorite"
            /\ calls[c].promise # pending
            /\ calls[c].promise.value # null}
NotAdded == {c \in 1..Len(calls) : calls[c].resource = "addFavorite"} \ Added

\* C28: a favorite that addFavorite returned is in the list of every later
\* loadDefaultFavorites call, as long as clearFavoritesCache has not been
\* called in between; a favorite no addFavorite call returned is not cached.
C28_AddedFavoriteIsKept ==
  /\ \A a \in Added :
       \A c \in (calls[a].returnedAfter + 1)..Len(calls) :
         (/\ calls[c].resource = "favorites"
          /\ Clears \cap (calls[a].returnedAfter + 1)..c = {}
          /\ Got(c) # null)
           => calls[a].promise.value \in Range(Got(c).list)
  /\ \A n \in NotAdded :
       (cachedFavorites # null /\ \A a \in Added : calls[a].name # calls[n].name)
         => [name |-> calls[n].name] \notin Range(cachedFavorites.list)

(* ------------------------ reasons and determinism ----------------------- *)
\* item.matchReasons, with undefined read as the empty list
reasonsOf(item) == IF "matchReasons" \in DOMAIN item THEN item.matchReasons ELSE <<>>

\* the +30 boost was applied to enriched item number i
DietBoosted(i) == Len(dietaryPreferences) > 0 /\ verdicts[i].meetsDietaryReqs

\* C23: for every item with a non-zero score the reasons list is a taste
\* reason naming a matched keyword exactly when the +15 taste boost was
\* applied (a keyword occurs in the tags, the name or the description),
\* followed by a diet reason naming the first requirement exactly when the
\* +30 diet boost was applied; it is absent when neither boost was applied.
C23_ReasonsFollowBoosts ==
  Loaded =>
    \A i \in 1..Len(restaurant.menu) :
      restaurant.menu[i].matchScore # 0 =>
        LET reasons == reasonsOf(restaurant.menu[i])
            tasteCount == IF verdicts[i].tasteMatch THEN 1 ELSE 0
            dietCount == IF DietBoosted(i) THEN 1 ELSE 0
        IN /\ Len(reasons) = tasteCount + dietCount
           /\ ("matchReasons" \in DOMAIN restaurant.menu[i]) = (tasteCount + dietCount > 0)
           /\ verdicts[i].tasteMatch =>
                /\ reasons[1].kind = "taste"
                /\ \E t \in Range(tasteProfile) :
                     tasteHit(RawItem(i), t) /\ reasons[1].label = t
           /\ DietBoosted(i) =>
                /\ reasons[Len(reasons)].kind = "diet"
                /\ reasons[Len(reasons)].label = dietaryPreferences[1]

\* the distance of two scores
Distance(a, b) == IF a < b THEN b - a ELSE a - b

\* C24: two scoring runs on the same item under the same taste keywords,
\* requirements and allergens, which differ only in the draw of the base
\* score, agree on zero / non-zero, on the diet and allergen verdicts, on the
\* boosts applied and on the reasons; their scores differ by less than the
\* span of the base score.
C24_DrawDoesNotClassify ==
  Loaded =>
    \A i, j \in 1..Len(restaurant.menu) :
      RawItem(i) = RawItem(j) =>
        /\ (restaurant.menu[i].matchScore = 0) = (restaurant.menu[j].matchScore = 0)
        /\ (restaurant.menu[i].matchScore = 0) = verdicts[i].floored
        /\ verdicts[i] = verdicts[j]
        /\ reasonsOf(restaurant.menu[i]) = reasonsOf(restaurant.menu[j])
        /\ Distance(restaurant.menu[i].matchScore, restaurant.menu[j].matchScore) < BaseSpan

\* the same item scored twice with different draws and the taste boost
C24_Witness ==
  /\ Loaded
  /\ Len(restaurant.menu) = 2
  /\ RawItem(1) = RawItem(2)
  /\ restaurant.menu[1].matchScore # restaurant.menu[2].matchScore
  /\ restaurant.menu[1].matchScore > 0
  /\ restaurant.menu[2].matchScore > 0
  /\ verdicts[1].tasteMatch
  /\ reasonsOf(restaurant.menu[1]) # <<>>

(* ------------------- Search form and overlapping fetches ---------------- *)
\* the characters String.prototype.trim removes that a user can type
WhiteSpace == {" ", "\t"}

RECURSIVE trimStart(_)
trimStart(s) ==
  IF Len(s) = 0 THEN s
  ELSE IF Head(s) \in WhiteSpace THEN trimStart(Tail(s)) ELSE s

\* String.prototype.trim
trim(s) == Reverse(trimStart(Reverse(trimStart(s))))

\* what the user can type into the dietary input and into the search box
DietaryInputs ==
  { <<"V","e","g","a","n">>, <<"v","e","g","a","n">>, <<" ","K","e","t","o"," ">>,
    <<" ","\t">>, <<>> }
SearchQueries == { <<>>, <<" ">>, <<"D","i","s","h","o","o","m">> }

\* the answers of the content source and the draws of the base score in use
DetailMenus == { <<TofuBowl>>, <<BeefBurger>> }
DetailDraws == {0, BaseSpan - 1}

\* the most fetches one mounted RestaurantDetail starts
MaxRequests == 3

\* the useEffect of RestaurantDetail after a render with new props: nothing
\* while the component is not shown, else fetchRestaurantData up to its await
fetchRestaurantData(preferences) ==
  IF pc = "unmounted"
  THEN UNCHANGED <<pc, loading, error, requests>>
  ELSE /\ Len(requests) < MaxRequests
       /\ pc' = "awaiting"
       /\ loading' = TRUE
       /\ error' = null
       /\ requests' = Append(requests, [dietaryPreferences |-> preferences,
                                        outcome |-> pending])

\* Search.handleSearch: a query that is not blank shows RestaurantDetail,
\* which mounts with loading = true and starts its first fetch
HandleSearch ==
  /\ pc = "unmounted"
  /\ \E searchQuery \in SearchQueries : trim(searchQuery) # <<>>
  /\ pc' = "awaiting"
  /\ loading' = TRUE
  /\ error' = null
  /\ requests' = <<[dietaryPreferences |-> dietaryPreferences, outcome |-> pending]>>
  /\ UNCHANGED <<tasteProfile, dietaryPreferences, allergens, restaurantData, verdicts,
                 restaurant>>
  /\ UNCHANGED <<engineVars, fallbackVars, guardVars>>

\* Search.handleAddDietary: the trimmed input is appended unless it is empty
\* or already in the list
HandleAddDietary ==
  /\ \E dietaryInput \in DietaryInputs :
       /\ trim(dietaryInput) # <<>>
       /\ trim(dietaryInput) \notin Range(dietaryPreferences)
       /\ dietaryPreferences' = Append(dietaryPreferences, trim(dietaryInput))
  /\ fetchRestaurantData(dietaryPreferences')
  /\ UNCHANGED <<tasteProfile, allergens, restaurantData, verdicts, restaurant>>
  /\ UNCHANGED <<engineVars, fallbackVars, guardVars>>

\* Search.removeFromDietary
RemoveFromDietary ==
  /\ \E item \in Range(dietaryPreferences) :
       dietaryPreferences' = SelectSeq(dietaryPreferences, LAMBDA i : i # item)
  /\ fetchRestaurantData(dietaryPreferences')
  /\ UNCHANGED <<tasteProfile, allergens, restaurantData, verdicts, restaurant>>
  /\ UNCHANGED <<engineVars, fallbackVars, guardVars>>

\* no fetch of the list is awaiting its answer
allSettled(fetches) == \A k \in 1..Len(fetches) : fetches[k].outcome # pending

\* the awaited generateRestaurantData of one fetch resolves with the menu
\* scored for the props that fetch captured: setRestaurant(data), then the
\* finally block's setLoading(false)
DetailFetchResolves ==
  /\ \E k \in 1..Len(requests) :
       /\ requests[k].outcome = pending
       /\ \E menu \in DetailMenus, rnd \in DetailDraws :
            /\ \A i \in 1..Len(menu) :
                 ~itemThrows(menu[i], tasteProfile, requests[k].dietaryPreferences, allergens)
            /\ restaurantData' = [menu |-> menu]
            /\ verdicts' = [i \in 1..Len(menu) |->
                              verdictOf(menu[i], tasteProfile,
                                        requests[k].dietaryPreferences, allergens)]
            /\ restaurant' = [menu |-> [i \in 1..Len(menu) |->
                                          enrichItem(menu[i], i, rnd, verdicts'[i],
                                                     requests[k].dietaryPreferences)]]
       /\ requests' = [requests EXCEPT ![k].outcome = [data |-> restaurant']]
  /\ loading' = FALSE
  /\ pc' = IF allSettled(requests') THEN "settled" ELSE "awaiting"
  /\ UNCHANGED <<tasteProfile, dietaryPreferences, allergens, error>>
  /\ UNCHANGED <<engineVars, fallbackVars, guardVars>>

\* the awaited generateRestaurantData of one fetch rejects: setError(...),
\* then the finally block's setLoading(false)
DetailFetchRejects ==
  /\ \E k \in 1..Len(requests) :
       /\ requests[k].outcome = pending
       /\ error' = [message |-> "Failed to load restaurant information"]
       /\ requests' = [requests EXCEPT ![k].outcome = [error |-> error']]
  /\ loading' = FALSE
  /\ pc' = IF allSettled(requests') THEN "settled" ELSE "awaiting"
  /\ UNCHANGED <<tasteProfile, dietaryPreferences, allergens, restaurantData, verdicts,
                 restaurant>>
  /\ UNCHANGED <<engineVars, fallbackVars, guardVars>>

SearchInit ==
  /\ ScorerIdle
  /\ EngineIdle
  /\ FallbackIdle
  /\ GuardIdle

SearchNext ==
  \/ HandleSearch
  \/ HandleAddDietary
  \/ RemoveFromDietary
  \/ DetailFetchResolves
  \/ DetailFetchRejects

SearchSpec == SearchInit /\ [][SearchNext]_vars

\* C25: the dietary list handed to a search request never holds two labels
\* that are equal ignoring case, and never holds an empty or whitespace-only
\* label.
C25_DietaryListDeduplicated ==
  \A k \in 1..Len(requests) :
    LET preferences == requests[k].dietaryPreferences
    IN \A i, j \in 1..Len(preferences) :
         /\ toLowerCase(preferences[i]) = toLowerCase(preferences[j]) => i = j
         /\ trim(preferences[i]) # <<>>

\* the fetches that have not settled
Unsettled == {k \in 1..Len(requests) : requests[k].outcome = pending}

\* C26: once every fetch of RestaurantDetail has settled, the restaurant or
\* error state shown is the outcome of the most recent request; and loading
\* is false only when no fetch is outstanding.
C26_LatestRequestWins ==
  /\ (requests # <<>> /\ Unsettled = {}) =>
       LET latest == requests[Len(requests)].outcome
       IN IF "data" \in DOMAIN latest
          THEN error = null /\ restaurant = latest.data
          ELSE error # null
  /\ (pc # "unmounted" /\ ~loading) => Unsettled = {}

(* ------------------ executePythonScript, event by event ----------------- *)
\* JSON.parse on texts over the characters [ ] , 1 and the line feed: a value
\* is a number or an array of values, with white space around the tokens
skipWhiteSpace(s, i) ==
  IF \E j \in i..Len(s) : s[j] # "\n"
  THEN CHOOSE j \in i..Len(s) : s[j] # "\n" /\ \A k \in i..(j - 1) : s[k] = "\n"
  ELSE Len(s) + 1

\* the position after the digits that start at i
endOfNumber(s, i) ==
  IF \E j \in i..Len(s) : s[j] # "1"
  THEN CHOOSE j \in i..Len(s) : s[j] # "1" /\ \A k \in i..(j - 1) : s[k] = "1"
  ELSE Len(s) + 1

RECURSIVE decimal(_)
decimal(digits) == IF digits = 0 THEN 0 ELSE 10 * decimal(digits - 1) + 1

jsonNumber(n) == [kind |-> "number", value |-> n]
syntaxError == [ok |-> FALSE]

RECURSIVE parseValue(_, _)
RECURSIVE parseElements(_, _, _)
parseValue(s, i) ==
  LET at == skipWhiteSpace(s, i)
  IN IF at > Len(s) THEN syntaxError
     ELSE IF s[at] = "1"
     THEN [ok |-> TRUE, value |-> jsonNumber(decimal(endOfNumber(s, at) - at)),
           next |-> skipWhiteSpace(s, endOfNumber(s, at))]
     ELSE IF s[at] = "["
     THEN IF skipWhiteSpace(s, at + 1) <= Len(s) /\ s[skipWhiteSpace(s, at + 1)] = "]"
          THEN [ok |-> TRUE, value |-> jsonArray(<<>>),
                next |-> skipWhiteSpace(s, skipWhiteSpace(s, at + 1) + 1)]
          ELSE parseElements(s, at + 1, <<>>)
     ELSE syntaxError

parseElements(s, i, elems) ==
  LET v == parseValue(s, i)
  IN IF ~v.ok THEN syntaxError
     ELSE IF v.next > Len(s) THEN syntaxError
     ELSE IF s[v.next] = "," THEN parseElements(s, v.next + 1, Append(elems, v.value))
     ELSE IF s[v.next] = "]"
     THEN [ok |-> TRUE, value |-> jsonArray(Append(elems, v.value)),
           next |-> skipWhiteSpace(s, v.next + 1)]
     ELSE syntaxError

\* JSON.parse(text): the value, or the SyntaxError the handler catches
JSONparse(text) ==
  LET v == parseValue(text, 1)
  IN IF v.ok /\ v.next = Len(text) + 1
     THEN [parses |-> TRUE, json |-> v.value]
     ELSE [parses |-> FALSE]

\* the chunks the child's stdout and stderr deliver, and its exit codes
StdoutChunks == { <<"[">>, <<"]">>, <<"1">>, <<",", "1">>, <<"]", "\n">> }
StderrChunks == { <<"T","r","a","c","e","b","a","c","k">> }
ExitCodes == {0, 1}

\* the most 'data' events of one child process
MaxChunks == 3

\* every resolve(...) replaces the result
settle_LastCallWins(promise, result) == resolved(result)

\* resolve(result): only the first call settles the promise
settle(promise, result) == IF promise = pending THEN resolved(result) ELSE promise

\* executePythonScript is called and spawn throws: the catch resolves
SpawnThrows ==
  /\ executed = null
  /\ python' = [threw |-> TRUE]
  /\ executed' = settle(pending, executePythonScript([event |-> "throw"]))
  /\ UNCHANGED <<stdoutData, stderrData, alternate, pythonResults, findMyFood>>
  /\ UNCHANGED <<scorerVars, engineVars, guardVars>>

\* executePythonScript is called and spawn returns the child: the listeners
\* are attached and the promise is returned
Spawns ==
  /\ executed = null
  /\ python' = [events |-> <<>>]
  /\ executed' = pending
  /\ UNCHANGED <<stdoutData, stderrData, alternate, pythonResults, findMyFood>>
  /\ UNCHANGED <<scorerVars, engineVars, guardVars>>

\* the child has been spawned and its streams are open
Running ==
  /\ "events" \in DOMAIN python
  /\ \A e \in 1..Len(python.events) : python.events[e].type # "close"

\* the 'data' events the child has emitted
DataEvents == {e \in 1..Len(python.events) : python.events[e].type \in {"stdout", "stderr"}}

\* python.stdout.on('data')
StdoutData ==
  /\ Running
  /\ Cardinality(DataEvents) < MaxChunks
  /\ \E data \in StdoutChunks :
       /\ stdoutData' = stdoutData \o data
       /\ python' = [events |-> Append(python.events, [type |-> "stdout", data |-> data])]
  /\ UNCHANGED <<stderrData, executed, alternate, pythonResults, findMyFood>>
  /\ UNCHANGED <<scorerVars, engineVars, guardVars>>

\* python.stderr.on('data')
StderrData ==
  /\ Running
  /\ Cardinality(DataEvents) < MaxChunks
  /\ \E data \in StderrChunks :
       /\ stderrData' = stderrData \o data
       /\ python' = [events |-> Append(python.events, [type |-> "stderr", data |-> data])]
  /\ UNCHANGED <<stdoutData, executed, alternate, pythonResults, findMyFood>>
  /\ UNCHANGED <<scorerVars, engineVars, guardVars>>

\* python.on('close'): emitted once, after the streams have ended
CloseEvent ==
  /\ Running
  /\ \E code \in ExitCodes :
       /\ python' = [events |-> Append(python.events, [type |-> "close", code |-> code])]
       /\ executed' = settle(executed,
                             executePythonScript([event |-> "close", code |-> code,
                                                  stdout |-> JSONparse(stdoutData)]))
  /\ UNCHANGED <<stdoutData, stderrData, alternate, pythonResults, findMyFood>>
  /\ UNCHANGED <<scorerVars, engineVars, guardVars>>

\* python.on('error'): emitted at most once, before or after 'close'
ErrorEvent ==
  /\ "events" \in DOMAIN python
  /\ \A e \in 1..Len(python.events) : python.events[e].type # "error"
  /\ python' = [events |-> Append(python.events, [type |-> "error"])]
  /\ executed' = settle(executed, executePythonScript([event |-> "error"]))
  /\ UNCHANGED <<stdoutData, stderrData, alternate, pythonResults, findMyFood>>
  /\ UNCHANGED <<scorerVars, engineVars, guardVars>>

ExecutorInit ==
  /\ ScorerIdle
  /\ EngineIdle
  /\ FallbackIdle
  /\ GuardIdle

ExecutorNext ==
  \/ SpawnThrows
  \/ Spawns
  \/ StdoutData
  \/ StderrData
  \/ CloseEvent
  \/ ErrorEvent

ExecutorSpec == ExecutorInit /\ [][ExecutorNext]_vars

(* ---------------------- properties of the executor --------------------- *)
\* the 'error' and 'close' events emitted so far, by their place in the log
Deciding == {e \in 1..Len(python.events) : python.events[e].type \in {"error", "close"}}

\* the stdout chunks emitted before event number e, concatenated
RECURSIVE StdoutBefore(_)
StdoutBefore(e) ==
  IF e <= 1 THEN <<>>
  ELSE IF python.events[e - 1].type = "stdout"
       THEN StdoutBefore(e - 1) \o python.events[e - 1].data
       ELSE StdoutBefore(e - 1)

\* the promise is fulfilled with success = false and an error message
ResolvedFailure ==
  /\ "value" \in DOMAIN executed
  /\ ~executed.value.success
  /\ DOMAIN executed.value = {"success", "error"}

\* C30: the promise of executePythonScript is pending or fulfilled, never
\* rejected; a throwing spawn fulfils it with success = false; otherwise it
\* is pending until the first 'error' or 'close' event, and that event fixes
\* the result: 'error' gives success = false, 'close' gives success = true
\* with the parsed data exactly when the exit code is 0 and the concatenated
\* stdout chunks parse as JSON, and success = false with a message otherwise.
C30_ExecutorAlwaysResolves ==
  executed # null =>
    /\ executed = pending \/ DOMAIN executed = {"value"}
    /\ "threw" \in DOMAIN python => ResolvedFailure
    /\ "events" \in DOMAIN python =>
         IF Deciding = {} THEN executed = pending
         ELSE LET first == CHOOSE e \in Deciding : \A d \in Deciding : e <= d
                  text == StdoutBefore(first)
              IN IF python.events[first].type = "error" THEN ResolvedFailure
                 ELSE IF python.events[first].code = 0 /\ JSONparse(text).parses
                 THEN executed = resolved([success |-> TRUE, data |-> JSONparse(text).json])
                 ELSE ResolvedFailure

\* three chunks that only together are JSON, exit code 0, and an 'error'
\* event after the 'close': the promise keeps the parsed list
C30_Witness ==
  /\ "events" \in DOMAIN python
  /\ Len(python.events) = 5
  /\ python.events[4] = [type |-> "close", code |-> 0]
  /\ python.events[5] = [type |-> "error"]
  /\ stdoutData = <<"[", "1", "]", "\n">>
  /\ executed = resolved([success |-> TRUE,
                          data |-> jsonArray(<<jsonNumber(1)>>)])

====
